---- MODULE Spec2Model ----
(***************************************************************************)
(* music_finder: the persisted directory index (core/file_index.py), the   *)
(* incremental scanner and the duplicate classifier                        *)
(* (core/music_finder.py), and the search worker (gui/main_window.py).     *)
(*                                                                         *)
(* One root directory R with the subdirectories R/a (A) and R/a/b (B) and  *)
(* one audio file per directory, plus a non-audio file in R.  Time is       *)
(* counted in whole seconds.  Python lists whose order the code keeps      *)
(* (index['files'], all_files, the groups) are sequences.                  *)
(***************************************************************************)
EXTENDS Integers, FiniteSets, Sequences, TLC

\* ------------------------------------------------------------------ bounds
MaxTick == 2
MaxData == 2
MaxGroupData == 4
MaxEvents == 3
MaxIndexEvents == 2
MaxParts == 2
MaxClears == 1

\* ------------------------------------------------------- program constants
MaxAgeHours == 24
MtimeTolerance == 1
MB == 1048576

MaxAge == MaxAgeHours * 3600

MUSIC_EXTENSIONS == {".mp3", ".wav", ".flac", ".aac", ".ogg", ".m4a", ".ape", ".wma"}
Methods == {"SIZE", "MD5", "MIXED"}
AllMethods == Methods \cup {"FILENAME"}
MinSizesMb == {0, 2}
MaxDepths == {0, 1}

\* ------------------------------------------------------------ the file tree
Root == "R"
Dirs == {"R", "A", "B"}
\* the files of the tree that changes between searches
TreePaths == {"r1", "x1", "a1", "b1"}
Paths == TreePaths \cup {"b2"}
ListingOrder == <<"r1", "x1", "a1", "b1", "b2">>

\* os.path.dirname of a file path and of a directory path
DirOf(p) == CASE p \in {"r1", "x1"} -> "R" [] p = "a1" -> "A" [] OTHER -> "B"
Parent(d) == CASE d = "A" -> "R" [] d = "B" -> "A" [] OTHER -> "outside"
ChildDirs(d) == CASE d = "R" -> <<"A">> [] d = "A" -> <<"B">> [] OTHER -> <<>>
\* len(Path(os.path.relpath(d, root_dir)).parts), 0 for the root itself
Depth(d) == CASE d = "A" -> 1 [] d = "B" -> 2 [] OTHER -> 0
\* os.path.splitext(path)[1].lower()
Ext(p) ==
    CASE p \in {"r1", "b1", "b2"} -> ".mp3" [] p = "a1" -> ".flac" [] OTHER -> ".txt"

\* os.path.basename(path)
Basename(p) ==
    CASE p = "r1" -> <<"S", "o", "n", "g", " ", "-", " ", "A", "r", "t", "i", "s", "t",
                       ".", "m", "p", "3">>
      [] p = "a1" -> <<"S", "o", "n", "g", " ", "-", " ", "A", "r", "t", "i", "s", "t",
                       " ", "(", "L", "i", "v", "e", ")", ".", "f", "l", "a", "c">>
      [] p = "b1" -> <<"S", "o", "n", "g", " ", "-", " ", "A", "r", "t", "i", "s", "t",
                       " ", "f", "e", "a", "t", ".", " ", "O", "t", "h", "e", "r",
                       ".", "m", "p", "3">>
      [] p = "b2" -> <<"S", "o", "n", "g", ".", "m", "p", "3">>
      [] OTHER -> <<"n", "o", "t", "e", "s", ".", "t", "x", "t">>

\* the byte size of a file holding content c: content 1 has 1 MB, contents 2
\* and 3 are two different contents of 2 MB, content 4 is one byte longer than
\* content 3 (another size, written with the same two decimals)
SizeOfData(c) ==
    IF c % 4 = 0 THEN (((c - 1) \div 2) + 1) * MB + 1 ELSE ((c \div 2) + 1) * MB
Datas == 1..MaxData

NoFile == [exists |-> FALSE, data |-> 0, mtime |-> 0, birth |-> 0, readable |-> FALSE,
           stat |-> FALSE]

\* ---------------------------------------------------------------- helpers
Abs(x) == IF x < 0 THEN 0 - x ELSE x
Range(s) == {s[i] : i \in DOMAIN s}
PathsOf(s) == {e.path : e \in Range(s)}

RECURSIVE SeqMapRec(_, _, _)
SeqMapRec(F(_), s, i) ==
    IF i > Len(s) THEN <<>> ELSE <<F(s[i])>> \o SeqMapRec(F, s, i + 1)
SeqMap(F(_), s) == SeqMapRec(F, s, 1)

\* ------------------------------------------------------------------ text
\* A str is the sequence of its characters.
UpperCase == <<"A", "B", "C", "D", "E", "F", "G", "H", "I", "J", "K", "L", "M",
               "N", "O", "P", "Q", "R", "S", "T", "U", "V", "W", "X", "Y", "Z">>
LowerCase == <<"a", "b", "c", "d", "e", "f", "g", "h", "i", "j", "k", "l", "m",
               "n", "o", "p", "q", "r", "s", "t", "u", "v", "w", "x", "y", "z">>
Digits == {"0", "1", "2", "3", "4", "5", "6", "7", "8", "9"}
\* str.lower()
LowerChar(c) ==
    IF \E i \in DOMAIN UpperCase : UpperCase[i] = c
    THEN LowerCase[CHOOSE i \in DOMAIN UpperCase : UpperCase[i] = c]
    ELSE c
Lower(s) == [i \in DOMAIN s |-> LowerChar(s[i])]
\* str.strip()
IsSpace(c) == c = " "
Strip(s) ==
    IF \A i \in DOMAIN s : IsSpace(s[i]) THEN <<>>
    ELSE LET first == CHOOSE i \in DOMAIN s :
                          ~IsSpace(s[i]) /\ \A j \in 1..(i - 1) : IsSpace(s[j])
             last == CHOOSE i \in DOMAIN s :
                          ~IsSpace(s[i]) /\ \A j \in (i + 1)..Len(s) : IsSpace(s[j])
         IN  SubSeq(s, first, last)
\* whether w stands in s at position i; with re.IGNORECASE when ci
MatchAt(s, w, i, ci) ==
    /\ i >= 1
    /\ i + Len(w) - 1 <= Len(s)
    /\ \A k \in 1..Len(w) :
          IF ci THEN LowerChar(s[i + k - 1]) = LowerChar(w[k]) ELSE s[i + k - 1] = w[k]
\* the positions where the pattern  w$  (more = FALSE) or  w.+$  (more = TRUE)
\* matches in s
MatchStarts(s, w, more, ci) ==
    {i \in DOMAIN s :
        /\ MatchAt(s, w, i, ci)
        /\ IF more THEN i + Len(w) - 1 < Len(s) ELSE i + Len(w) - 1 = Len(s)}
Least(S) == CHOOSE i \in S : \A j \in S : i <= j
\* re.sub(pattern, '', s, flags=re.IGNORECASE) for such a pattern: the leftmost
\* match runs to the end of s and is removed
ReSubToEnd(s, w, more) ==
    IF MatchStarts(s, w, more, TRUE) = {} THEN s
    ELSE SubSeq(s, 1, Least(MatchStarts(s, w, more, TRUE)) - 1)
\* the patterns of a list applied one after the other
\* the pattern  [\(\uFF08].+[\)\uFF09]$ : the leftmost opening parenthesis from
\* which at least one character and a closing parenthesis at the end follow
ParenStarts(s) ==
    {i \in DOMAIN s : /\ s[i] \in {"(", "U+FF08"}
                      /\ i + 1 < Len(s)
                      /\ s[Len(s)] \in {")", "U+FF09"}}
ReSubParen(s) ==
    IF ParenStarts(s) = {} THEN s ELSE SubSeq(s, 1, Least(ParenStarts(s)) - 1)
Pat(w, more) == [kind |-> "text", w |-> w, more |-> more]
ParenPat == [kind |-> "paren", w |-> <<>>, more |-> TRUE]
\* the patterns of a list applied one after the other
RECURSIVE ReSubAll(_, _, _)
ReSubAll(s, pats, i) ==
    IF i > Len(pats) THEN s
    ELSE ReSubAll(IF pats[i].kind = "paren" THEN ReSubParen(s)
                  ELSE ReSubToEnd(s, pats[i].w, pats[i].more), pats, i + 1)

\* ------------------------------------------------- the file name classifier
\* A character outside ASCII is written as its code point.
\* normalize_artist_name, line 113: re.sub(r'[%\.\s\-_]+', ' ', artist)
IsPunct(c) == c \in {"%", ".", " ", "-", "_"}
RECURSIVE CollapsePunct(_, _)
CollapsePunct(s, i) ==
    IF i > Len(s) THEN <<>>
    ELSE IF IsPunct(s[i])
         THEN (IF i > 1 /\ IsPunct(s[i - 1]) THEN <<>> ELSE <<" ">>)
              \o CollapsePunct(s, i + 1)
         ELSE <<s[i]>> \o CollapsePunct(s, i + 1)
remove_patterns ==
    << Pat(<<"U+9093", "U+7D2B", "U+68CB">>, FALSE), Pat(<<"G", ".", "E", ".", "M">>, FALSE),
       Pat(<<"U+963F", "U+59B9">>, FALSE), Pat(<<"A", "-", "M", "e", "i">>, FALSE),
       Pat(<<"f", "e", "a", "t", ".">>, TRUE), Pat(<<"f", "t", ".">>, TRUE),
       ParenPat,
       Pat(<<"U+7FFB", "U+81EA">>, TRUE), Pat(<<"c", "o", "v", "e", "r">>, TRUE) >>
normalize_artist_name(artist) ==
    Lower(Strip(ReSubAll(CollapsePunct(artist, 1), remove_patterns, 1)))

\* os.path.splitext(filename)[0]: the name up to its last dot, a dot that only
\* dots precede not counting
ExtDots(s) == {i \in DOMAIN s : s[i] = "." /\ \E j \in 1..(i - 1) : s[j] # "."}
Greatest(S) == CHOOSE i \in S : \A j \in S : i >= j
SplitExtRoot(s) == IF ExtDots(s) = {} THEN s ELSE SubSeq(s, 1, Greatest(ExtDots(s)) - 1)
\* re.sub(r'_\d{14}$', '', name)
StripTimestamp(s) ==
    IF /\ Len(s) >= 15
       /\ s[Len(s) - 14] = "_"
       /\ \A k \in (Len(s) - 13)..Len(s) : s[k] \in Digits
    THEN SubSeq(s, 1, Len(s) - 15) ELSE s
Separator == <<" ", "-", " ">>
SeparatorStarts(s) == {i \in DOMAIN s : MatchAt(s, Separator, i, FALSE)}
title_patterns ==
    << Pat(<<"(", "L", "i", "v", "e", ")">>, FALSE), Pat(<<"(", "R", "e", "m", "i", "x", ")">>, FALSE),
       Pat(<<"(", "C", "o", "v", "e", "r", ")">>, FALSE), Pat(<<"(", "D", "J", "U+7248", ")">>, FALSE),
       Pat(<<"(", "U+7EAF", "U+97F3", "U+4E50", ")">>, FALSE), Pat(<<"(", "U+4F34", "U+594F", ")">>, FALSE),
       Pat(<<"(", "U+7247", "U+6BB5", ")">>, FALSE), Pat(<<"(", "D", "e", "m", "o", ")">>, FALSE) >>
\* parse_music_filename(filename) -> (title, artist)
parse_music_filename(filename) ==
    LET name == StripTimestamp(Strip(SplitExtRoot(filename)))
    IN  IF SeparatorStarts(name) = {} THEN [title |-> name, artist |-> <<>>]
        ELSE LET i == Least(SeparatorStarts(name))
             IN  [title |-> Strip(ReSubAll(SubSeq(name, 1, i - 1), title_patterns, 1)),
                  artist |-> normalize_artist_name(SubSeq(name, i + 3, Len(name)))]
\* line 394: key = f"{title}|{artist}" if artist else title
NameKeyOf(parsed) ==
    IF parsed.artist # <<>> THEN parsed.title \o <<"|">> \o parsed.artist ELSE parsed.title
\* line 400: name_key.split('|')[0]
TitleOfKey(key) ==
    IF \E i \in DOMAIN key : key[i] = "|"
    THEN SubSeq(key, 1, Least({i \in DOMAIN key : key[i] = "|"}) - 1)
    ELSE key

VARIABLES
    now,          \* time.time(), in ticks
    rootState,    \* "ok", "unreadable" (listing fails), "missing"
    events,       \* how many times the environment has acted
    files,        \* path -> the file on disk (birth: when an audio file was created;
                  \* readable: open(path, "rb") succeeds; stat: os.stat succeeds)
    dmtime,       \* directory -> os.path.getmtime
    index,        \* content of the file at get_index_path(root)
    tmp,          \* content of the file at index_path.with_suffix('.json.tmp')
    aside,        \* content of any other file of the index directory
    op,           \* the operation that ran last: "none", "load", "save", "scan"
    preIndex,     \* index before that operation
    saved,        \* the records given to the last save_index call by its caller
    index_result, \* what load_index returned
    all_files,    \* find_duplicates: all_files
    new_files_count,
    index_saved,  \* find_duplicates reached file_index.save_index (line 322)
    duplicates,   \* the group map find_duplicates returned
    total,        \* the count find_duplicates returned
    cbLog,        \* the (message, percent) pairs given to the callback
    signal,       \* SearchWorker: "finished", "error" or "none"
    args,         \* the arguments of the last find_duplicates call
    saver,        \* process -> where its save_index call stands, step by step
    hashed,       \* history: path -> how often its content has been read for a
                  \* digest in this process: "no", "once", "again" (more than once);
                  \* recorded by the classification specification only
    call,         \* the last call of a pure function: its name, argument and result
    caches,       \* MusicFinder._file_cache, FileInfo._md5_cache and _metadata_cache,
                  \* and who holds MusicFinder._cache_lock
    thread,       \* thread -> where its call of a cache accessor stands
    window        \* MainWindow: toolbar, search workers, queued signals, listing

vars == <<now, events, rootState, files, dmtime, index, tmp, aside, op, preIndex, saved,
          index_result, all_files, new_files_count, index_saved, duplicates,
          total, cbLog, signal, args, saver, hashed, call, caches, thread, window>>


\* ------------------------------------------------------------ file contents
Absent == [kind |-> "absent", timestamp |-> 0, files |-> <<>>]
Corrupt == [kind |-> "corrupt", timestamp |-> 0, files |-> <<>>]
Doc(ts, fs) == [kind |-> "doc", timestamp |-> ts, files |-> fs]

Miss == [hit |-> FALSE, files |-> <<>>, timestamp |-> 0]
Hit(fs, ts) == [hit |-> TRUE, files |-> fs, timestamp |-> ts]

NoArgs == [method |-> "none", max_depth |-> 0, min_size_mb |-> 0, err |-> 0]

\* ------------------------------------------------------------------- os.*
\* the directory lists the entry (os.walk, os.listdir)
Listed(p) == files[p].exists
\* os.path.exists: os.stat succeeds; os.stat and os.path.getsize raise otherwise
Exists(p) == files[p].exists /\ files[p].stat
StatSize(p) == SizeOfData(files[p].data)
StatMtime(p) == files[p].mtime


\* os.path.getmtime(dir): get_dir_mtime returns 0 when it raises
GetDirMtime(d) == IF rootState = "missing" THEN 0 ELSE dmtime[d]

\* FileInfo.from_path: size is the text "<x.xx> MB", kept as hundredths of a MB
FormatMB(bytes) == (bytes * 100 + MB \div 2) \div MB
FromPath(p) ==
    IF Exists(p)
    THEN [path |-> p, exists |-> TRUE, size_bytes |-> StatSize(p), size |-> FormatMB(StatSize(p))]
    ELSE [path |-> p, exists |-> FALSE, size_bytes |-> 0, size |-> 0 - 1]

\* FileInfo.md5: the digest of the content; "" (0) when the file cannot be
\* read (_calculate_md5 gives up after its retries) or does not exist
Md5(fi) == IF fi.exists /\ files[fi.path].readable THEN files[fi.path].data ELSE 0
\* md5[:8], the prefix shown in a label
Md5Prefix(d) == d

\* ------------------------------------------------------------- FileIndex
\* a faulty save_index: the entry carries the time of the save (the index_time
\* that the comment of line 33 says is no longer set), not the file's mtime
SavedEntry_IndexTime(rec) == [path |-> rec.path, size |-> rec.size, mtime |-> now]
\* the entry save_index writes for one record of its argument
SavedEntry(rec) == [path |-> rec.path, size |-> rec.size, mtime |-> StatMtime(rec.path)]
RecExists(rec) == Exists(rec.path)
ValidFilesToSave(recs) == SeqMap(SavedEntry, SelectSeq(recs, RecExists))

\* save_index(root_dir, files) run to its end without an I/O failure:
\* the content of the index path afterwards
SaveIndex(idx, recs) ==
    IF ValidFilesToSave(recs) = <<>> THEN idx ELSE Doc(now, ValidFilesToSave(recs))

\* load_index: the validation of one stored record against os.stat
IsValidRec(rec) ==
    /\ Exists(rec.path)
    /\ StatSize(rec.path) = rec.size
    /\ Abs(StatMtime(rec.path) - rec.mtime) < MtimeTolerance
\* a faulty load_index: the age is divided down to days, not to hours
IsExpired_Days(idx) == now - idx.timestamp > MaxAge * 24
IsExpired(idx) == now - idx.timestamp > MaxAge

\* load_index(root_dir): what it returns and what it leaves at the index path
LoadValid(idx) == SelectSeq(idx.files, IsValidRec)
LoadResult(idx) ==
    IF idx.kind # "doc" THEN Miss
    ELSE IF IsExpired(idx) THEN Miss
    ELSE IF LoadValid(idx) = <<>> THEN Miss
    ELSE Hit(LoadValid(idx), idx.timestamp)
LoadCompacts(idx) ==
    idx.kind = "doc" /\ ~IsExpired(idx) /\ Len(LoadValid(idx)) # Len(idx.files)
LoadIndexAfter(idx) ==
    IF LoadCompacts(idx) THEN SaveIndex(idx, LoadValid(idx)) ELSE idx

\* ------------------------------------------------- MusicFinder.find_duplicates
\* lines 195-221: a cached record is taken over unless its directory is newer
\* than the record (line 206) or FileInfo.from_path finds the file gone
DirNewerThanRecord(f) == GetDirMtime(DirOf(f.path)) > f.mtime
TakenFromCache(f) == ~DirNewerThanRecord(f) /\ FromPath(f.path).exists
CachedRecords(res) == IF res.hit THEN SelectSeq(res.files, TakenFromCache) ELSE <<>>
PathOfRec(f) == f.path
KnownFiles(res) == {f.path : f \in Range(CachedRecords(res))}

\* should_scan_dir(dir_path, has_index), index_time being the loaded timestamp
ShouldScanDir(d, res) ==
    IF ~res.hit THEN TRUE
    ELSE IF GetDirMtime(d) > res.timestamp THEN TRUE
    ELSE IF Parent(d) \in Dirs /\ GetDirMtime(Parent(d)) > res.timestamp THEN TRUE
    ELSE FALSE

\* a faulty depth test that allows one segment more
TooDeep_OneMore(d, max_depth) == max_depth > 0 /\ d # Root /\ Depth(d) > max_depth + 1
\* the depth test of lines 263-268
TooDeep(d, max_depth) == max_depth > 0 /\ d # Root /\ Depth(d) > max_depth

\* the directories whose files the os.walk loop reaches (line 270), in walk
\* order: a pruned or too deep directory clears dirs, so nothing below it is
\* visited
RECURSIVE WalkFrom(_, _, _)
RECURSIVE WalkEach(_, _, _, _)
WalkEach(ds, i, res, max_depth) ==
    IF i > Len(ds) THEN <<>>
    ELSE WalkFrom(ds[i], res, max_depth) \o WalkEach(ds, i + 1, res, max_depth)
WalkFrom(d, res, max_depth) ==
    IF ~ShouldScanDir(d, res) \/ TooDeep(d, max_depth) THEN <<>>
    ELSE <<d>> \o WalkEach(ChildDirs(d), 1, res, max_depth)
\* os.walk of a root that is missing or cannot be listed yields nothing
\* (onerror is None)
WalkedDirs(res, max_depth) ==
    IF rootState # "ok" THEN <<>> ELSE WalkFrom(Root, res, max_depth)

\* lines 270-293: the files the walk adds
\* os.path.getsize raises for an entry that cannot be stat'ed: continue
\* (lines 283-288); from_path gives exists = False for it (line 290)
IsNewFile(p, walked, known_files, min_size_mb) ==
    /\ Listed(p)
    /\ DirOf(p) \in walked
    /\ p \notin known_files
    /\ Ext(p) \in MUSIC_EXTENSIONS
    /\ Exists(p)
    /\ StatSize(p) >= min_size_mb * MB
    /\ FromPath(p).exists
\* a faulty walk whose try encloses the whole loop: the first entry that
\* cannot be stat'ed ends it
NewFiles_Aborting(res, max_depth, min_size_mb) ==
    LET walked == Range(WalkedDirs(res, max_depth))
        known_files == KnownFiles(res)
        Test(p) == IsNewFile(p, walked, known_files, min_size_mb)
        Fails(i) == Listed(ListingOrder[i]) /\ ~Exists(ListingOrder[i])
        stop == Least({i \in 1..Len(ListingOrder) : Fails(i)} \cup {Len(ListingOrder) + 1})
    IN  SelectSeq(SubSeq(ListingOrder, 1, stop - 1), Test)
NewFiles(res, max_depth, min_size_mb) ==
    LET walked == Range(WalkedDirs(res, max_depth))
        known_files == KnownFiles(res)
        Test(p) == IsNewFile(p, walked, known_files, min_size_mb)
    IN  SelectSeq(ListingOrder, Test)

AllFiles(res, max_depth, min_size_mb) ==
    SeqMap(FromPath, SeqMap(PathOfRec, CachedRecords(res)))
        \o SeqMap(FromPath, NewFiles(res, max_depth, min_size_mb))

\* line 305: whether the index is rewritten, and lines 307-319: with what
NeedsSave(res, all, new_count) ==
    new_count > 0 \/ (res.hit /\ Len(all) # Len(res.files))
IndexEntry(fi) == [path |-> fi.path, size |-> fi.size_bytes, mtime |-> StatMtime(fi.path)]
FileInfoExists(fi) == Exists(fi.path)
IndexData(all) == SeqMap(IndexEntry, SelectSeq(all, FileInfoExists))
\* lines 305-322: the index path after the save step of the scan
IndexAfterScan(idx, res, all, new_count) ==
    IF NeedsSave(res, all, new_count) /\ IndexData(all) # <<>>
    THEN SaveIndex(idx, IndexData(all))
    ELSE idx
ScanSaves(res, all, new_count) ==
    NeedsSave(res, all, new_count) /\ IndexData(all) # <<>>

\* lines 330-401: the classification.  A dict is the set of its items; a later
\* item with the label of an earlier one replaces it.
Label(kind, size, md5) == [kind |-> kind, size |-> size, md5 |-> md5]
\* line 401: the label of a FILENAME group, title and number of versions
NameLabel(title, n) == [kind |-> "name", title |-> title, versions |-> n]
Put(d, label, fs) == {e \in d : e.label # label} \cup {[label |-> label, files |-> fs]}

SizeKey(fi) == fi.size_bytes
\* lines 393-394: the key of a file in name_groups
NameKeys == [p \in Paths |-> NameKeyOf(parse_music_filename(Basename(p)))]
NameKey(fi) == NameKeys[fi.path]
\* a faulty grouping: the md5 groups are keyed by size
KeyOf_SizeOnly(kind, fi) == IF kind = "name" THEN NameKey(fi) ELSE SizeKey(fi)
\* the key of a file in size_groups ("size"), md5_groups ("md5") or
\* name_groups ("name")
KeyOf(kind, fi) ==
    IF kind = "md5" THEN Md5(fi) ELSE IF kind = "name" THEN NameKey(fi) ELSE SizeKey(fi)

\* the keys of a defaultdict filled in the order of s, in insertion order
RECURSIVE KeysInOrder(_, _, _)
KeysInOrder(kind, s, i) ==
    IF i > Len(s) THEN <<>>
    ELSE IF \E j \in 1..(i - 1) : KeyOf(kind, s[j]) = KeyOf(kind, s[i])
         THEN KeysInOrder(kind, s, i + 1)
         ELSE <<KeyOf(kind, s[i])>> \o KeysInOrder(kind, s, i + 1)
WithKey(kind, s, k) == LET Test(fi) == KeyOf(kind, fi) = k IN SelectSeq(s, Test)
\* a faulty test: the unknown hash counts as a hash
HasMd5_Always(fi) == TRUE
HasMd5(fi) == Md5(fi) # 0

\* the keys the final loop of each method iterates over
ClassKeys(all, method) ==
    IF method = "MD5" THEN KeysInOrder("md5", SelectSeq(all, HasMd5), 1)
    ELSE IF method = "FILENAME" THEN KeysInOrder("name", all, 1)
    ELSE KeysInOrder("size", all, 1)

\* a faulty test: a list of one file is kept as a group
IsDuplicateGroup_Any(fs) == Len(fs) > 0
\* if len(files) > 1 (lines 344, 365, 377, 385, 399)
IsDuplicateGroup(fs) == Len(fs) > 1

\* lines 376-386: the inner loop of MIXED over the md5 groups of one size group
RECURSIVE MixedInner(_, _, _, _)
MixedInner(d, fs, keys, i) ==
    IF i > Len(keys) THEN d
    ELSE LET md5_files == WithKey("md5", fs, keys[i])
         IN  MixedInner(IF IsDuplicateGroup(md5_files)
                        THEN Put(d, Label("mixed", md5_files[1].size, Md5Prefix(keys[i])), md5_files)
                        ELSE d,
                        fs, keys, i + 1)

\* one iteration of the final loop: the dict after the group of key k
AfterClass(d, all, method, k) ==
    IF method = "SIZE"
    THEN LET fs == WithKey("size", all, k)
         IN  IF IsDuplicateGroup(fs) THEN Put(d, Label("size", fs[1].size, 0), fs) ELSE d
    ELSE IF method = "MD5"
    THEN LET fs == WithKey("md5", SelectSeq(all, HasMd5), k)
         IN  IF IsDuplicateGroup(fs) THEN Put(d, Label("md5", 0, Md5Prefix(k)), fs) ELSE d
    ELSE IF method = "FILENAME"
    THEN LET fs == WithKey("name", all, k)
         IN  IF IsDuplicateGroup(fs) THEN Put(d, NameLabel(TitleOfKey(k), Len(fs)), fs) ELSE d
    ELSE LET fs == WithKey("size", all, k)
         IN  IF IsDuplicateGroup(fs)
             THEN MixedInner(d, SelectSeq(fs, HasMd5),
                             KeysInOrder("md5", SelectSeq(fs, HasMd5), 1), 1)
             ELSE d

\* the dict after the first n iterations of the final loop
RECURSIVE DuplicatesAfter(_, _, _)
DuplicatesAfter(all, method, n) ==
    IF n = 0 THEN {}
    ELSE AfterClass(DuplicatesAfter(all, method, n - 1), all, method,
                    ClassKeys(all, method)[n])

\* a faulty MIXED that asks every file for its digest, as MD5 does
Md5Requested_All(all, method, err) ==
    IF method \in {"MD5", "MIXED"} THEN {fi.path : fi \in Range(all)} ELSE {}
\* the files whose md5 property the classification evaluates: all of them
\* under MD5 (lines 358-359), under MIXED those of the size groups of two or
\* more files that the loop reached (lines 376-380)
Md5Requested(all, method, err) ==
    IF method = "MD5" THEN {fi.path : fi \in Range(all)}
    ELSE IF method = "MIXED"
    THEN LET keys == ClassKeys(all, method)
             last == IF err = 0 THEN Len(keys) ELSE err - 1
         IN  {fi.path : fi \in {g \in Range(all) :
                  \E i \in 1..last : /\ SizeKey(g) = keys[i]
                                      /\ Len(WithKey("size", all, keys[i])) > 1}}
    ELSE {}
\* FileInfo.md5 (lines 26-27): a FileInfo made by from_path has _md5 None, so
\* the first request on it reads the file
HashedAfter(all, method, err) ==
    [p \in Paths |->
        IF p \in Md5Requested(all, method, err)
        THEN (IF hashed[p] = "no" THEN "once" ELSE "again")
        ELSE hashed[p]]

\* lines 407-413: what find_duplicates returns.  err = 0: no exception;
\* err = k: an exception is raised in iteration k of the final loop, when the
\* dict holds the groups of the k - 1 iterations before it.
\* a faulty except clause: the groups built before the exception are returned
ReturnedOnError_Partial(partial, all) == [duplicates |-> partial, total |-> Len(all)]
ReturnedOnError(partial, all) == [duplicates |-> {}, total |-> Len(all)]
Returned(all, method, err) ==
    IF err = 0
    THEN [duplicates |-> DuplicatesAfter(all, method, Len(ClassKeys(all, method))),
          total |-> Len(all)]
    ELSE ReturnedOnError(DuplicatesAfter(all, method, err - 1), all)

\* the calls of the callback: (message, percent)
Cb(msg, percent) == [msg |-> msg, percent |-> percent]
Callbacks(res, all, method, err) ==
    (IF res.hit THEN {Cb("index", 10)} ELSE {})
    \cup {Cb("scan", 20), Cb("start", 40)}
    \cup (IF method = "SIZE" /\ all # <<>> THEN {Cb("size", 50)} ELSE {})
    \cup (IF method = "MD5"
          THEN {Cb("md5", (i * 100) \div Len(all)) : i \in 1..Len(all)} ELSE {})
    \cup (IF err = 0 THEN {Cb("done", 100)} ELSE {Cb("error", 0)})

\* ---------------------------------------------------------------- the state
NotSaved == [given |-> FALSE, recs |-> <<>>]
Procs == {1, 2}
Idle == [pc |-> "idle", doc |-> Absent, old |-> Absent, written |-> 0, at |-> "none"]
NoCall == [f |-> "none", in |-> <<>>, out |-> <<>>]
\* the paths asked for through the caches; 0 is "no entry", the lock is free
\* when its holder is 0
CachePaths == {"r1", "a1"}
CacheNames == {"md5", "metadata"}
NoCaches == [file |-> [p \in CachePaths |-> 0],
             md5 |-> [p \in CachePaths |-> 0],
             metadata |-> [p \in CachePaths |-> 0],
             lock |-> 0, created |-> 0, clears |-> 0]
NoAccess == [pc |-> "idle", f |-> "none", path |-> "none", rec |-> 0, gen |-> 0, val |-> 0]

\* everything but the files of the tree
\* ToolbarWidget: method_combo, max_depth_spin and min_size_spin; the combo
\* starts at its first item, the spin boxes at 0
Toolbar(method, max_depth, min_size) ==
    [method |-> method, max_depth |-> max_depth, min_size |-> min_size]
NoListing == [by |-> 0, kind |-> "none", groups |-> {}, total |-> 0]
NoWindow == [toolbar |-> Toolbar("FILENAME", 0, 0), workers |-> <<>>,
             queue |-> <<>>, listing |-> NoListing]

InitProgram ==
    /\ now = 0
    /\ events = 0
    /\ rootState = "ok"
    /\ dmtime = [d \in Dirs |-> 0]
    /\ index = Absent
    /\ tmp = Absent
    /\ aside = Absent
    /\ op = "none"
    /\ preIndex = Absent
    /\ saved = NotSaved
    /\ index_result = Miss
    /\ all_files = <<>>
    /\ new_files_count = 0
    /\ index_saved = FALSE
    /\ duplicates = {}
    /\ total = 0
    /\ cbLog = {}
    /\ signal = "none"
    /\ args = NoArgs
    /\ saver = [q \in Procs |-> Idle]
    /\ hashed = [p \in Paths |-> "no"]
    /\ call = NoCall
    /\ caches = NoCaches
    /\ thread = [t \in Procs |-> NoAccess]
    /\ window = NoWindow

Init ==
    /\ files = [p \in Paths |-> NoFile]
    /\ InitProgram

\* nothing of an earlier operation is kept once the environment has moved
ResetOut ==
    /\ events < MaxEvents
    /\ events' = events + 1
    /\ UNCHANGED <<saver, hashed, call, caches, thread, window>>
    /\ op' = "none"
    /\ preIndex' = Absent
    /\ saved' = NotSaved
    /\ index_result' = Miss
    /\ all_files' = <<>>
    /\ new_files_count' = 0
    /\ index_saved' = FALSE
    /\ duplicates' = {}
    /\ total' = 0
    /\ cbLog' = {}
    /\ signal' = "none"
    /\ args' = NoArgs

\* ---------------------------------------------------------- the environment
Tick ==
    /\ now < MaxTick
    /\ now' = now + 1
    /\ UNCHANGED <<rootState, files, dmtime, index, tmp, aside>>
    /\ ResetOut

\* a day passes
Expire ==
    /\ now < MaxAge
    /\ now' = now + MaxAge
    /\ UNCHANGED <<rootState, files, dmtime, index, tmp, aside>>
    /\ ResetOut

\* a file is created with content c; a copy may keep the source's old mtime
AddFile(p, c, keepOld) ==
    /\ rootState = "ok"
    /\ ~files[p].exists
    /\ p = "x1" => (c = 1 /\ keepOld)
    /\ files' = [files EXCEPT ![p] = [exists |-> TRUE, data |-> c,
                                      mtime |-> IF keepOld THEN 0 ELSE now,
                                      birth |-> IF p = "x1" THEN 0 ELSE now,
                                      readable |-> TRUE, stat |-> TRUE]]
    /\ dmtime' = [dmtime EXCEPT ![DirOf(p)] = now]
    /\ UNCHANGED <<now, rootState, index, tmp, aside>>
    /\ ResetOut

DeleteFile(p) ==
    /\ rootState = "ok"
    /\ files[p].exists
    /\ files' = [files EXCEPT ![p] = NoFile]
    /\ dmtime' = [dmtime EXCEPT ![DirOf(p)] = now]
    /\ UNCHANGED <<now, rootState, index, tmp, aside>>
    /\ ResetOut

\* a file is rewritten in place: the directory is not touched
ModifyFile(p, c) ==
    /\ rootState # "missing"
    /\ files[p].exists
    /\ p # "x1"
    /\ files[p].data # c \/ files[p].mtime # now
    /\ files' = [files EXCEPT ![p].data = c, ![p].mtime = now]
    /\ UNCHANGED <<now, rootState, dmtime, index, tmp, aside>>
    /\ ResetOut

RootUnreadable ==
    /\ rootState = "ok"
    /\ rootState' = "unreadable"
    /\ UNCHANGED <<now, files, dmtime, index, tmp, aside>>
    /\ ResetOut

RootReadable ==
    /\ rootState = "unreadable"
    /\ rootState' = "ok"
    /\ UNCHANGED <<now, files, dmtime, index, tmp, aside>>
    /\ ResetOut

RemoveRoot ==
    /\ rootState = "ok"
    /\ rootState' = "missing"
    /\ files' = [p \in Paths |-> NoFile]
    /\ dmtime' = [d \in Dirs |-> 0]
    /\ UNCHANGED <<now, index, tmp, aside>>
    /\ ResetOut

RestoreRoot ==
    /\ rootState = "missing"
    /\ rootState' = "ok"
    /\ dmtime' = [d \in Dirs |-> now]
    /\ UNCHANGED <<now, files, index, tmp, aside>>
    /\ ResetOut

\* the index file is damaged (a torn write of another program, a disk error)
CorruptIndex ==
    /\ index.kind = "doc"
    /\ index' = Corrupt
    /\ UNCHANGED <<now, rootState, files, dmtime, tmp, aside>>
    /\ ResetOut

\* ------------------------------------------------------------- the program
\* FileIndex.load_index(root_dir), called on its own
Load ==
    \E after \in {LoadIndexAfter(index)} :
    /\ op' = "load"
    /\ preIndex' = index
    /\ index_result' = LoadResult(index)
    /\ index' = after
    /\ tmp' = IF after # index THEN Absent ELSE tmp
    /\ saved' = IF op = "save" THEN saved ELSE NotSaved
    /\ all_files' = <<>>
    /\ new_files_count' = 0
    /\ index_saved' = FALSE
    /\ duplicates' = {}
    /\ total' = 0
    /\ cbLog' = {}
    /\ signal' = "none"
    /\ args' = NoArgs
    /\ UNCHANGED <<now, events, rootState, files, dmtime, aside, saver, hashed, call, caches, thread, window>>

\* FileIndex.save_index(root_dir, files), called on its own
Save(recs) ==
    \E after \in {SaveIndex(index, recs)} :
    /\ op' = "save"
    /\ preIndex' = index
    /\ saved' = [given |-> TRUE, recs |-> recs]
    /\ index' = after
    /\ tmp' = IF after # index THEN Absent ELSE tmp
    /\ index_result' = Miss
    /\ all_files' = <<>>
    /\ new_files_count' = 0
    /\ index_saved' = FALSE
    /\ duplicates' = {}
    /\ total' = 0
    /\ cbLog' = {}
    /\ signal' = "none"
    /\ args' = NoArgs
    /\ UNCHANGED <<now, events, rootState, files, dmtime, aside, saver, hashed, call, caches, thread, window>>

\* FileIndex.remove_index(root_dir)
RemoveIndex ==
    /\ index.kind # "absent"
    /\ index' = Absent
    /\ UNCHANGED <<now, rootState, files, dmtime, tmp, aside>>
    /\ ResetOut

\* a faulty find_duplicates that clears the non-audio file out of the tree it scans
FindDuplicates_Clearing(method, max_depth, min_size_mb, sig) ==
    \E res \in {LoadResult(index)} :
    \E all \in {AllFiles(res, max_depth, min_size_mb)} :
    \E new \in {NewFiles(res, max_depth, min_size_mb)} :
    \E ret \in {Returned(all, method, 0)} :
        /\ op' = "scan"
        /\ preIndex' = index
        /\ index_result' = res
        /\ all_files' = all
        /\ new_files_count' = Len(new)
        /\ index_saved' = ScanSaves(res, all, Len(new))
        /\ index' = IndexAfterScan(LoadIndexAfter(index), res, all, Len(new))
        /\ tmp' = Absent
        /\ duplicates' = ret.duplicates
        /\ total' = ret.total
        /\ cbLog' = Callbacks(res, all, method, 0)
        /\ signal' = sig
        /\ saved' = NotSaved
        /\ args' = [method |-> method, max_depth |-> max_depth,
                    min_size_mb |-> min_size_mb, err |-> 0]
        /\ files' = [files EXCEPT !["x1"] = NoFile]
        /\ UNCHANGED <<now, events, rootState, dmtime, aside, saver, call, caches, thread>>

\* MusicFinder.find_duplicates(root_dir, method, callback, max_depth, min_size_mb);
\* the history variable hashed is left to the caller
FindDuplicates(method, max_depth, min_size_mb, sig) ==
    \E res \in {LoadResult(index)} :
    \E new \in {NewFiles(res, max_depth, min_size_mb)} :
    \E all \in {AllFiles(res, max_depth, min_size_mb)} :
    \E err \in 0..Len(ClassKeys(all, method)) :
    \E ret \in {Returned(all, method, err)} :
        /\ op' = "scan"
        /\ preIndex' = index
        /\ index_result' = res
        /\ all_files' = all
        /\ new_files_count' = Len(new)
        /\ index_saved' = ScanSaves(res, all, Len(new))
        /\ index' = IndexAfterScan(LoadIndexAfter(index), res, all, Len(new))
        /\ tmp' = IF ScanSaves(res, all, Len(new)) \/ LoadIndexAfter(index) # index
                  THEN Absent ELSE tmp
        /\ duplicates' = ret.duplicates
        /\ total' = ret.total
        /\ cbLog' = Callbacks(res, all, method, err)
        /\ signal' = sig
        /\ saved' = NotSaved
        /\ args' = [method |-> method, max_depth |-> max_depth,
                    min_size_mb |-> min_size_mb, err |-> err]
        /\ UNCHANGED <<now, events, rootState, files, dmtime, aside, saver, call, caches, thread>>

\* a caller of the core that sets the filters
Scan(method, max_depth, min_size_mb) ==
    /\ max_depth # 0 \/ min_size_mb # 0
    /\ FindDuplicates(method, max_depth, min_size_mb, "none")
    /\ UNCHANGED <<hashed, window>>

\* SearchWorker.run: the call with the default filters; find_duplicates
\* returns, so finished is emitted
SearchWorkerRun(method) ==
    /\ FindDuplicates(method, 0, 0, "finished")
    /\ UNCHANGED <<hashed, window>>

\* the same call, with the reads of file content recorded in hashed
SearchWorkerRunHashing(method) ==
    /\ FindDuplicates(method, 0, 0, "finished")
    /\ hashed' = HashedAfter(all_files', method, args'.err)
    /\ UNCHANGED window

\* MainWindow.show_results / show_error: what the window shows once the
\* worker's terminal signal has been delivered
ShowResults(results, n) == [kind |-> "listing", groups |-> results, total |-> n]
ShowError == [kind |-> "error", groups |-> {}, total |-> 0]
NothingShown == [kind |-> "none", groups |-> {}, total |-> 0]
Shown ==
    IF signal = "finished" THEN ShowResults(duplicates, total)
    ELSE IF signal = "error" THEN ShowError
    ELSE NothingShown

Env ==
    \/ Tick
    \/ Expire
    \/ \E p \in TreePaths, c \in Datas, k \in BOOLEAN : AddFile(p, c, k)
    \/ \E p \in TreePaths : DeleteFile(p)
    \/ \E p \in TreePaths, c \in Datas : ModifyFile(p, c)
    \/ RootUnreadable
    \/ RootReadable
    \/ RemoveRoot
    \/ RestoreRoot
    \/ CorruptIndex
    \/ RemoveIndex

\* the scanner: searches started from the window, in a changing file tree
Next ==
    \/ Env
    \/ \E m \in Methods : SearchWorkerRun(m)

Spec == Init /\ [][Next]_vars

\* the index store: save_index and load_index called with any records
RecPaths == {"r1", "a1"}
\* the index store reads sizes and mtimes, never contents: one content per size
SizeDatas == {1, 2}
RecInputs == [path : RecPaths, size : {SizeOfData(c) : c \in SizeDatas}, mtime : {0, now}]
RecSeqs == {<<>>} \cup {<<r>> : r \in RecInputs}
                 \cup {s \in {<<r, q>> : r \in RecInputs, q \in RecInputs} :
                           s[1].path # s[2].path}

EnvIndex ==
    \/ Tick
    \/ Expire
    \/ \E p \in RecPaths, c \in SizeDatas, k \in BOOLEAN : AddFile(p, c, k)
    \/ \E p \in RecPaths : DeleteFile(p)
    \/ \E p \in RecPaths, c \in SizeDatas : ModifyFile(p, c)
    \/ CorruptIndex

NextIndex ==
    \/ events < MaxIndexEvents /\ EnvIndex
    \/ \E recs \in RecSeqs : Save(recs)
    \/ Load

SpecIndex == Init /\ [][NextIndex]_vars

\* the classification: searches over any file tree.  Every audio file is
\* absent or holds one of the contents, and can be read or not.
AudioPaths == {p \in Paths : Ext(p) \in MUSIC_EXTENSIONS}
\* the files that another program may hold locked, so that reading them fails
LockedPaths == {"r1", "a1"}
GroupDatas == 2..MaxGroupData
FileChoices ==
    {NoFile} \cup [exists : {TRUE}, data : GroupDatas, mtime : {0}, birth : {0},
                    readable : BOOLEAN, stat : {TRUE}]
InitGroup ==
    /\ files \in [Paths -> FileChoices]
    /\ \A p \in Paths \ AudioPaths : files[p] = NoFile
    /\ \A p \in Paths \ LockedPaths : files[p] = NoFile \/ files[p].readable
    /\ InitProgram

NextGroup ==
    \E m \in AllMethods : SearchWorkerRunHashing(m)

SpecGroup == InitGroup /\ [][NextGroup]_vars

\* ------------------------------------------------- failures on single files
\* Searches over trees in which os.stat fails for some of the listed files
\* (a broken link, a file that another program holds or removes).
\* a file of 1 MB and one of 2 MB: the size filter tells them apart
StatDatas == {1, 2}
StatChoices ==
    {NoFile} \cup [exists : {TRUE}, data : StatDatas, mtime : {0}, birth : {0},
                    readable : {TRUE}, stat : BOOLEAN]
InitScan ==
    /\ files \in [Paths -> StatChoices]
    /\ \A p \in Paths \ (AudioPaths \cap TreePaths) : files[p] = NoFile
    /\ InitProgram

\* os.stat begins to fail for a file
StatBreaks(p) ==
    /\ Exists(p)
    /\ files' = [files EXCEPT ![p].stat = FALSE]
    /\ UNCHANGED <<now, rootState, dmtime, index, tmp, aside>>
    /\ ResetOut

\* find_duplicates while os.stat begins to fail for the file p: load_index
\* (line 163) has returned the records it found valid, and everything after
\* it (lines 195-322) meets the failure
FindDuplicatesBreaking(method, max_depth, min_size_mb, p) ==
    /\ Exists(p)
    /\ files' = [files EXCEPT ![p].stat = FALSE]
    /\ UNCHANGED <<now, events, rootState, dmtime, aside, saver, hashed, call, caches, thread, window>>
    /\ \E idx \in {LoadIndexAfter(index)} :
       \E res \in {LoadResult(index)} :
       \E all \in {AllFiles(res, max_depth, min_size_mb)'} :
       \E new \in {NewFiles(res, max_depth, min_size_mb)'} :
       \E ret \in {Returned(all, method, 0)'} :
        /\ op' = "scan"
        /\ preIndex' = index
        /\ index_result' = res
        /\ all_files' = all
        /\ new_files_count' = Len(new)
        /\ index_saved' = ScanSaves(res, all, Len(new))'
        /\ index' = IndexAfterScan(idx, res, all, Len(new))'
        /\ tmp' = IF ScanSaves(res, all, Len(new))' \/ idx # index THEN Absent ELSE tmp
        /\ duplicates' = ret.duplicates
        /\ total' = ret.total
        /\ cbLog' = Callbacks(res, all, method, 0)'
        /\ signal' = "finished"
        /\ saved' = NotSaved
        /\ args' = [method |-> method, max_depth |-> max_depth,
                    min_size_mb |-> min_size_mb, err |-> 0]

\* the walk and the cached records do not depend on the method
NextScan ==
    \/ SearchWorkerRun("SIZE")
    \/ \E d \in MaxDepths, s \in MinSizesMb : Scan("SIZE", d, s)
    \/ \E d \in MaxDepths, p \in TreePaths : FindDuplicatesBreaking("SIZE", d, 0, p)
    \/ \E p \in TreePaths : StatBreaks(p)

SpecScan == InitScan /\ [][NextScan]_vars

\* ---------------------------------------------- the file-name classifier
\* parse_music_filename applied to two basenames, as the FILENAME branch does
\* for the files of one search (lines 392-395).  A basename is a title, an
\* optional marker, an optional artist part with an optional trailer, and the
\* extension.
SongTitle == <<"S", "o", "n", "g">>
SongTitleLower == <<"s", "o", "n", "g">>
LiveMarker == <<" ", "(", "L", "i", "v", "e", ")">>
ArtistPart == Separator \o <<"A", "r", "t", "i", "s", "t">>
ArtistPartUpper == Separator \o <<"A", "R", "T", "I", "S", "T">>
FeatTrailer == <<" ", "f", "e", "a", "t", ".", " ", "O", "t", "h", "e", "r">>
Mp3Ext == <<".", "m", "p", "3">>
NameTitles == {SongTitle, SongTitleLower}
NameMarkers == {<<>>, LiveMarker}
NameArtists == {<<>>, ArtistPart, ArtistPartUpper}
NameTrailers == {<<>>, LiveMarker, FeatTrailer}
MakeName(t, m, a, x) == t \o m \o a \o x \o Mp3Ext
Names == {MakeName(t, m, a, x) : t \in NameTitles, m \in NameMarkers,
                                a \in NameArtists, x \in NameTrailers}
Parsed == [n \in Names |-> parse_music_filename(n)]

ParseNames(n1, n2) ==
    /\ call' = [f |-> "parse_music_filename", in |-> <<n1, n2>>,
                out |-> <<Parsed[n1], Parsed[n2]>>]
    /\ UNCHANGED <<now, events, rootState, files, dmtime, index, tmp, aside, op, preIndex,
                   saved, index_result, all_files, new_files_count, index_saved,
                   duplicates, total, cbLog, signal, args, saver, hashed,
                   caches, thread, window>>

NextName == \E n1 \in Names, n2 \in Names : ParseNames(n1, n2)

SpecName == Init /\ [][NextName]_vars

\* ------------------------------------------------------ the resolution
\* FileTreeWidget.auto_select_duplicates (file_tree.py lines 211-294) on the
\* rows of the result tree.  A row shows a path, a size in hundredths of a MB
\* ("x.xx MB") and a modification time; the tree holds one group of two or more
\* rows per top-level item (delete_selected removes a group left with one row).
\* The path of a row is its directory words, its stem and its extension; one
\* file outside the directory Downloads has that word as its name.
RowFiles ==
    { [dirs |-> {"Music"}, stem |-> "Song", ext |-> ".mp3"],
      [dirs |-> {"Music", "Downloads"}, stem |-> "Song", ext |-> ".flac"],
      [dirs |-> {"Music", "Downloads"}, stem |-> "Tune", ext |-> ".aac"],
      [dirs |-> {"Music"}, stem |-> "Downloads", ext |-> ".mp3"] }
RowSizes == {100, 200}
RowMtimes == {0, 1}
Rows == [file : RowFiles, size : RowSizes, mtime : RowMtimes]
RowGroups ==
    {g \in UNION {[1..n -> Rows] : n \in 2..(Cardinality(RowFiles) - 1)} :
        \A i \in DOMAIN g, j \in DOMAIN g : i # j => g[i].file # g[j].file}
\* a second group of the tree
OtherGroup ==
    << [file |-> [dirs |-> {"Music"}, stem |-> "Other", ext |-> ".mp3"], size |-> 100, mtime |-> 0],
       [file |-> [dirs |-> {"Music"}, stem |-> "Other", ext |-> ".wav"], size |-> 200, mtime |-> 1] >>
RowTrees == {<<g>> : g \in RowGroups} \cup {<<g, OtherGroup>> : g \in {h \in RowGroups : Len(h) = 2}}

\* DuplicateSettingsDialog.get_settings (duplicate_settings_dialog.py lines
\* 85-95): a priority 1..7 for each of the seven formats of the dialog
DialogFormats == {".flac", ".wav", ".ape", ".mp3", ".m4a", ".ogg", ".wma"}
DefaultPriority == [e \in DialogFormats |-> 1]
LosslessFirst == [e \in DialogFormats |-> IF e \in {".flac", ".wav", ".ape"} THEN 1 ELSE 2]
SettingsChoices ==
    [format_priority : {DefaultPriority, LosslessFirst},
     prefer_larger : BOOLEAN,
     exclude_dirs : {{}, {"Downloads"}},
     delete_dirs : {{}, {"downloads"}},
     keep_oldest : BOOLEAN,
     skip_different_names : BOOLEAN]

\* str.lower() on the words of the model
LowerWord(w) ==
    CASE w = "Music" -> "music" [] w = "Downloads" -> "downloads"
      [] w = "Song" -> "song" [] w = "Tune" -> "tune" [] w = "Other" -> "other"
      [] OTHER -> w
PathWords(file) == file.dirs \cup {file.stem, file.ext}
\* a faulty test: no row is left out
IsExcluded_Never(file, settings) == FALSE
\* line 234: any(excl_dir in path for excl_dir in settings['exclude_dirs'])
IsExcluded(file, settings) == \E d \in settings.exclude_dirs : d \in PathWords(file)
\* line 271: any(d.lower() in file['path'].lower() for d in delete_dirs)
InDeleteDir(file, settings) ==
    \E d \in settings.delete_dirs : LowerWord(d) \in {LowerWord(w) : w \in PathWords(file)}
\* line 243: settings['format_priority'].get(ext, 999)
NoPriority == 999
PriorityOf(ext, settings) ==
    IF ext \in DOMAIN settings.format_priority THEN settings.format_priority[ext] ELSE NoPriority

\* lines 226-244: the dicts of one group, rows of an excluded directory left out
RECURSIVE CollectFiles(_, _, _, _)
CollectFiles(group, gi, j, settings) ==
    IF j > Len(group) THEN <<>>
    ELSE (IF IsExcluded(group[j].file, settings) THEN <<>>
          ELSE << [item |-> <<gi, j>>, file |-> group[j].file, size |-> group[j].size,
                   mtime |-> group[j].mtime,
                   priority |-> PriorityOf(group[j].file.ext, settings)] >>)
         \o CollectFiles(group, gi, j + 1, settings)

\* lines 277-282: the sort key
SortKey(x, settings) ==
    << IF InDeleteDir(x.file, settings) THEN 1 ELSE 0,
       x.priority,
       IF settings.prefer_larger THEN x.size ELSE 0 - x.size,
       IF settings.keep_oldest THEN 0 - x.mtime ELSE x.mtime >>
\* the order of Python tuples
KeyLess(a, b) ==
    \E i \in DOMAIN a : a[i] < b[i] /\ \A j \in 1..(i - 1) : a[j] = b[j]
\* list.sort is stable: an element goes behind the elements that do not sort
\* after it
InsertSorted(x, s, settings) ==
    LET behind == {i \in DOMAIN s : KeyLess(SortKey(x, settings), SortKey(s[i], settings))}
        at == IF behind = {} THEN Len(s) + 1 ELSE Least(behind)
    IN  SubSeq(s, 1, at - 1) \o <<x>> \o SubSeq(s, at, Len(s))
RECURSIVE SortFiles(_, _, _)
SortFiles(fs, n, settings) ==
    IF n = 0 THEN <<>> ELSE InsertSorted(fs[n], SortFiles(fs, n - 1, settings), settings)

\* a faulty selection: every file of the sorted list is selected
SelectedOf_All(sorted) == {sorted[i].item : i \in 1..Len(sorted)}
\* lines 293-294: for file in files[1:]: setSelected(True)
SelectedOf(sorted) == {sorted[i].item : i \in 2..Len(sorted)}
\* _select_files_to_delete(files, settings): the items it selects
select_files_to_delete(fs, settings) ==
    IF fs = <<>> THEN {} ELSE SelectedOf(SortFiles(fs, Len(fs), settings))

\* lines 252-259: the name groups of more than one file
WithStem(fs, stem) == LET Test(f) == f.file.stem = stem IN SelectSeq(fs, Test)
\* a faulty subdivision: the names are ignored
SelectByName_Whole(fs, settings) == select_files_to_delete(fs, settings)
SelectByName(fs, settings) ==
    UNION {select_files_to_delete(WithStem(fs, f.file.stem), settings) :
               f \in {g \in Range(fs) : Len(WithStem(fs, g.file.stem)) > 1}}
\* lines 221-261: one iteration of the loop over the groups
SelectInGroup(group, gi, settings) ==
    LET fs == CollectFiles(group, gi, 1, settings)
    IN  IF fs = <<>> THEN {}
        ELSE IF settings.skip_different_names THEN SelectByName(fs, settings)
        ELSE select_files_to_delete(fs, settings)
\* auto_select_duplicates: the selection it leaves; a dialog that was not
\* accepted leaves the selection as it was
auto_select_duplicates(tree, settings, accepted, selected) ==
    IF ~accepted THEN selected
    ELSE UNION {SelectInGroup(tree[gi], gi, settings) : gi \in DOMAIN tree}

\* the inputs: a tree, the settings of the dialog, whether the dialog was
\* accepted, the selection before the call
SelectInputs ==
    [tree : RowTrees, settings : SettingsChoices, accepted : {TRUE}, selected : {{}, {<<1, 1>>}}]
      \cup [tree : RowTrees, settings : {CHOOSE s \in SettingsChoices : TRUE},
            accepted : {FALSE}, selected : {{<<1, 1>>}}]
AutoSelectDuplicates(input) ==
    /\ call' = [f |-> "auto_select_duplicates", in |-> input,
                out |-> auto_select_duplicates(input.tree, input.settings,
                                                input.accepted, input.selected)]
    /\ UNCHANGED <<now, events, rootState, files, dmtime, index, tmp, aside, op, preIndex,
                   saved, index_result, all_files, new_files_count, index_saved,
                   duplicates, total, cbLog, signal, args, saver, hashed,
                   caches, thread, window>>

\* one click on the button in a behaviour
NextSelect == call = NoCall /\ \E input \in SelectInputs : AutoSelectDuplicates(input)

SpecSelect == Init /\ [][NextSelect]_vars

\* ------------------------------------------------------- path normalization
\* MusicFinder.normalize_path (music_finder.py lines 40-68) on paths written
\* as sequences of characters.  os.path is posixpath or ntpath; win32wnet is
\* importable on some Windows installations only, and a drive letter is a
\* mapped share or not.
Bs == "\\"
StartsWith(s, w) == MatchAt(s, w, 1, FALSE)
\* str.replace(a, b) for single characters
ReplaceChar(s, a, b) == [i \in DOMAIN s |-> IF s[i] = a THEN b ELSE s[i]]
\* str.lstrip(chars)
LStrip(s, chars) ==
    IF \A i \in DOMAIN s : s[i] \in chars THEN <<>>
    ELSE SubSeq(s, Least({i \in DOMAIN s : s[i] \notin chars}), Len(s))
\* str.split(c) and c.join(comps)
RECURSIVE SplitOn(_, _)
SplitOn(s, c) ==
    IF \A i \in DOMAIN s : s[i] # c THEN <<s>>
    ELSE LET at == Least({i \in DOMAIN s : s[i] = c})
         IN  <<SubSeq(s, 1, at - 1)>> \o SplitOn(SubSeq(s, at + 1, Len(s)), c)
RECURSIVE JoinWith(_, _)
JoinWith(comps, c) ==
    IF comps = <<>> THEN <<>>
    ELSE IF Len(comps) = 1 THEN comps[1]
    ELSE comps[1] \o <<c>> \o JoinWith(Tail(comps), c)
CurDir == <<".">>
ParDir == <<".", ".">>
\* the loop of normpath over the components: rooted says whether ".." at the
\* start is dropped (the path starts at a root)
RECURSIVE NormComps(_, _, _, _)
NormComps(comps, i, acc, rooted) ==
    IF i > Len(comps) THEN acc
    ELSE LET c == comps[i]
         IN  IF c = <<>> \/ c = CurDir THEN NormComps(comps, i + 1, acc, rooted)
             ELSE IF c # ParDir THEN NormComps(comps, i + 1, Append(acc, c), rooted)
             ELSE IF acc # <<>> /\ acc[Len(acc)] # ParDir
                  THEN NormComps(comps, i + 1, SubSeq(acc, 1, Len(acc) - 1), rooted)
             ELSE IF acc = <<>> /\ rooted THEN NormComps(comps, i + 1, acc, rooted)
             ELSE NormComps(comps, i + 1, Append(acc, c), rooted)
\* posixpath.normpath for a path that does not start with "//"
PosixNormpath(path) ==
    IF path = <<>> THEN CurDir
    ELSE LET rooted == StartsWith(path, <<"/">>)
             body == JoinWith(NormComps(SplitOn(path, "/"), 1, <<>>, rooted), "/")
             out == IF rooted THEN <<"/">> \o body ELSE body
         IN  IF out = <<>> THEN CurDir ELSE out
\* ntpath.normpath for a path that does not start with two separators: the
\* prefix is the drive, if any, and one separator, if the rest starts with one
NtNormpath(path) ==
    LET p == ReplaceChar(path, "/", Bs)
        drive == IF Len(p) >= 2 /\ p[2] = ":" THEN SubSeq(p, 1, 2) ELSE <<>>
        rest == SubSeq(p, Len(drive) + 1, Len(p))
        rooted == StartsWith(rest, <<Bs>>)
        prefix == IF rooted THEN drive \o <<Bs>> ELSE drive
        comps == NormComps(SplitOn(LStrip(rest, {Bs}), Bs), 1, <<>>, rooted)
    IN  IF prefix = <<>> /\ comps = <<>> THEN CurDir ELSE prefix \o JoinWith(comps, Bs)
Normpath(path, os) == IF os = "nt" THEN NtNormpath(path) ELSE PosixNormpath(path)
\* str.isalpha() on one character
IsAlpha(c) == \E i \in DOMAIN UpperCase : c = UpperCase[i] \/ c = LowerCase[i]
\* ntpath.join(network_path, rest) for a share and a rest without drive: a
\* rest that starts with a separator replaces the path on the share
JoinShare(share, rest) ==
    IF rest = <<>> \/ StartsWith(rest, <<Bs>>) THEN share \o rest ELSE share \o <<Bs>> \o rest
Returns(path) == [ok |-> TRUE, path |-> path]
Raises == [ok |-> FALSE, path |-> <<>>]
\* lines 54-66: the mapped-drive part, reached when win32wnet is importable
ResolveDrive(p, plat) ==
    IF ~IsAlpha(p[1]) THEN Returns(p)
    ELSE IF Len(p) < 2 THEN Raises
    ELSE IF p[2] # ":" THEN Returns(p)
    ELSE IF plat.share = <<>> THEN Returns(p)
    ELSE Returns(ReplaceChar(JoinShare(plat.share, SubSeq(p, 4, Len(p))), "/", Bs))
normalize_path(path, plat) ==
    IF StartsWith(path, <<Bs, Bs>>) \/ StartsWith(path, <<"/", "/">>)
    THEN LET p == ReplaceChar(path, "/", Bs)
         IN  Returns(IF ~StartsWith(p, <<Bs, Bs>>)
                     THEN <<Bs, Bs>> \o LStrip(p, {Bs, "/"}) ELSE p)
    ELSE LET p == Normpath(path, plat.os)
         IN  IF plat.win32wnet THEN ResolveDrive(p, plat) ELSE Returns(p)

\* the inputs: a lead, up to MaxParts components and the separator between
\* them.  A name that starts with backslashes is a file name on POSIX only.
ShareName == <<Bs, Bs, "s", Bs, "h">>
Platforms ==
    { [os |-> "posix", win32wnet |-> FALSE, share |-> <<>>],
      [os |-> "nt", win32wnet |-> FALSE, share |-> <<>>],
      [os |-> "nt", win32wnet |-> TRUE, share |-> <<>>],
      [os |-> "nt", win32wnet |-> TRUE, share |-> ShareName] }
PathLeads ==
    { <<>>, <<"/">>, <<Bs>>, <<"/", "/">>, <<Bs, Bs>>, <<"Z", ":">>, <<"Z", ":", "/">>,
      <<"Z", ":", Bs>>, <<".", "/">>, <<".", Bs>> }
PathNames(os) ==
    {<<"a">>, <<"m", "p">>, CurDir, ParDir} \cup (IF os = "posix" THEN {<<Bs, Bs, "s">>} ELSE {})
PathForms(os) ==
    {lead \o JoinWith(parts, sep) :
        lead \in PathLeads, sep \in {"/", Bs},
        parts \in UNION {[1..n -> PathNames(os)] : n \in 0..MaxParts}}

\* normalize_path applied to a path and then to its own result
NormalizePath(path, plat) ==
    /\ call' = [f |-> "normalize_path", in |-> <<path, plat>>,
                out |-> LET once == normalize_path(path, plat)
                        IN  <<once, IF once.ok THEN normalize_path(once.path, plat) ELSE Raises>>]
    /\ UNCHANGED <<now, events, rootState, files, dmtime, index, tmp, aside, op, preIndex,
                   saved, index_result, all_files, new_files_count, index_saved,
                   duplicates, total, cbLog, signal, args, saver, hashed,
                   caches, thread, window>>

NextPath ==
    call = NoCall /\ \E plat \in Platforms : \E path \in PathForms(plat.os) : NormalizePath(path, plat)

SpecPath == Init /\ [][NextPath]_vars

\* ------------------------------------------- save_index, one step at a time
\* lines 54-71 of file_index.py.  The document is written to the temporary
\* path record by record, then moved over the index path.  A step may raise
\* (the finally clause then runs), and the process may die at any point.
\* a faulty save_index: the document is written straight to the index path
TempPath_InPlace == "index"
TempPath == "tmp"
IndexPath == "index"
Partial(doc, n) == [kind |-> "partial", timestamp |-> doc.timestamp,
                    files |-> SubSeq(doc.files, 1, n)]
ReadFile(name) == IF name = IndexPath THEN index ELSE tmp
WriteFile(name, content) ==
    IF name = IndexPath
    THEN index' = content /\ UNCHANGED tmp
    ELSE tmp' = content /\ UNCHANGED index
\* Path.replace(target): the source takes the target's place in one step
ReplaceFile(src, dst) ==
    IF src = dst THEN UNCHANGED <<index, tmp>>
    ELSE index' = ReadFile(src) /\ tmp' = Absent
\* where a file that a saver holds open is after a replace or an unlink: an
\* open file follows its renaming, and is on no path once it is replaced or
\* unlinked
AfterReplace(at, src, dst) ==
    IF src = dst THEN at
    ELSE IF at = src THEN dst
    ELSE IF at = dst THEN "gone"
    ELSE at
AfterUnlink(at, name) == IF at = name THEN "gone" ELSE at
\* two writers in one file: bytes of one document over bytes of another
Mixed == [kind |-> "mixed", timestamp |-> 0, files |-> <<>>]
\* how much of doc a file holds from its start: all of it (one more than
\* its records), its first k records, or -1 if it holds something else
PrefixLen(content, doc) ==
    IF content = doc THEN Len(doc.files) + 1
    ELSE IF content.kind = "partial" /\ content.files = <<>> THEN 0
    ELSE IF \E k \in 0..Len(doc.files) : content = Partial(doc, k)
    THEN CHOOSE k \in 0..Len(doc.files) : content = Partial(doc, k)
    ELSE 0 - 1
\* f.write at the writer's own offset: it has written n parts of doc and
\* writes on to part m (one more than the records: to the end)
WriteInto(content, doc, n, m) ==
    LET k == PrefixLen(content, doc)
        upto == IF k > m THEN k ELSE m
    IN  IF k < n THEN Mixed
        ELSE IF upto > Len(doc.files) THEN doc
        ELSE Partial(doc, upto)
\* the write of saver q reaches the file it opened, wherever that is now
WriteOpenFile(q, m) ==
    IF saver[q].at \in {IndexPath, TempPath}
    THEN WriteFile(saver[q].at,
                   WriteInto(ReadFile(saver[q].at), saver[q].doc, saver[q].written, m))
    ELSE UNCHANGED <<index, tmp>>
\* temp_path.unlink() when temp_path.exists()
UnlinkFile(name) ==
    IF name = IndexPath
    THEN index' = Absent /\ UNCHANGED tmp
    ELSE tmp' = Absent /\ UNCHANGED index

saveFrame == <<now, events, rootState, files, dmtime, aside, op, preIndex, saved,
               index_result, all_files, new_files_count, index_saved, duplicates,
               total, cbLog, signal, args, hashed, call, caches, thread, window>>

\* lines 26-52: the snapshot is built; nothing is written when it is empty
SaveStart(q, recs) ==
    /\ saver[q].pc = "idle"
    /\ saver' = [saver EXCEPT ![q] =
          IF ValidFilesToSave(recs) = <<>> THEN Idle
          ELSE [pc |-> "open", doc |-> Doc(now, ValidFilesToSave(recs)),
                old |-> index, written |-> 0, at |-> "none"]]
    /\ UNCHANGED <<index, tmp>>
    /\ UNCHANGED saveFrame

\* line 57: open(temp_path, 'w') creates or truncates the file
SaveOpen(q) ==
    /\ saver[q].pc = "open"
    /\ WriteFile(TempPath, Partial(saver[q].doc, 0))
    /\ saver' = [saver EXCEPT ![q].pc = "write", ![q].at = TempPath]
    /\ UNCHANGED saveFrame

\* line 58: json.dump writes the next part of the document
SaveWrite(q) ==
    /\ saver[q].pc = "write"
    /\ saver[q].written < Len(saver[q].doc.files)
    /\ WriteOpenFile(q, saver[q].written + 1)
    /\ saver' = [saver EXCEPT ![q].written = @ + 1]
    /\ UNCHANGED saveFrame

\* the end of the with block: the last bytes are flushed, the file is closed
SaveClose(q) ==
    /\ saver[q].pc = "write"
    /\ saver[q].written = Len(saver[q].doc.files)
    /\ WriteOpenFile(q, Len(saver[q].doc.files) + 1)
    /\ saver' = [saver EXCEPT ![q].pc = "replace", ![q].at = "none"]
    /\ UNCHANGED saveFrame

\* line 61: temp_path.replace(index_path); it raises when there is no file
\* at temp_path (SaveRaise)
SaveReplace(q) ==
    /\ saver[q].pc = "replace"
    /\ ReadFile(TempPath).kind # "absent"
    /\ ReplaceFile(TempPath, IndexPath)
    /\ saver' = [r \in Procs |->
          IF r = q THEN [saver[q] EXCEPT !.pc = "finally"]
          ELSE [saver[r] EXCEPT !.at = AfterReplace(@, TempPath, IndexPath)]]
    /\ UNCHANGED saveFrame

\* open, write or replace raises: control goes to the finally clause
SaveRaise(q) ==
    /\ saver[q].pc \in {"open", "write", "replace"}
    /\ saver' = [saver EXCEPT ![q].pc = "finally"]
    /\ UNCHANGED <<index, tmp>>
    /\ UNCHANGED saveFrame

\* lines 65-71: the temporary file is removed if it is still there
SaveFinally(q) ==
    /\ saver[q].pc = "finally"
    /\ IF ReadFile(TempPath).kind # "absent" THEN UnlinkFile(TempPath)
       ELSE UNCHANGED <<index, tmp>>
    /\ saver' = [r \in Procs |->
          IF r = q THEN [saver[q] EXCEPT !.pc = "done", !.at = "none"]
          ELSE IF ReadFile(TempPath).kind # "absent"
          THEN [saver[r] EXCEPT !.at = AfterUnlink(@, TempPath)]
          ELSE saver[r]]
    /\ UNCHANGED saveFrame

\* the process is killed inside save_index: nothing more is written
SaveCrash(q) ==
    /\ saver[q].pc \in {"open", "write", "replace", "finally"}
    /\ saver' = [saver EXCEPT ![q].pc = "crashed"]
    /\ UNCHANGED <<index, tmp>>
    /\ UNCHANGED saveFrame

\* save_index has returned, or the program is started again after a crash
SaveReturn(q) ==
    /\ saver[q].pc \in {"done", "crashed"}
    /\ saver' = [saver EXCEPT ![q] = Idle]
    /\ UNCHANGED <<index, tmp>>
    /\ UNCHANGED saveFrame

EnvSave ==
    \/ Tick
    \/ \E p \in RecPaths : AddFile(p, 1, FALSE)
    \/ \E p \in RecPaths : DeleteFile(p)

NextSave ==
    \/ events < MaxIndexEvents /\ saver[1].pc = "idle" /\ EnvSave
    \/ \E recs \in RecSeqs : SaveStart(1, recs)
    \/ SaveOpen(1)
    \/ SaveWrite(1)
    \/ SaveClose(1)
    \/ SaveReplace(1)
    \/ SaveRaise(1)
    \/ SaveFinally(1)
    \/ SaveCrash(1)
    \/ SaveReturn(1)

SpecSave == Init /\ [][NextSave]_vars

\* two searches of one root, started one after the other from the window
\* (start_search does not wait for a running worker), save at the same time:
\* both use the same temp_path
\* the tree the two searches walk, and what they may have found in it
SaversFile == [exists |-> TRUE, data |-> 1, mtime |-> 0, birth |-> 0, readable |-> TRUE,
               stat |-> TRUE]
FoundRec(p) == [path |-> p, size |-> SizeOfData(1), mtime |-> 0]
SaversRecs == {<<FoundRec("r1")>>, <<FoundRec("r1"), FoundRec("a1")>>}
InitSavers ==
    /\ files = [p \in Paths |-> IF p \in RecPaths THEN SaversFile ELSE NoFile]
    /\ InitProgram

SaveStep(q) ==
    \/ \E recs \in SaversRecs : SaveStart(q, recs)
    \/ SaveOpen(q)
    \/ SaveWrite(q)
    \/ SaveClose(q)
    \/ SaveReplace(q)
    \/ SaveRaise(q)
    \/ SaveFinally(q)
    \/ SaveReturn(q)

NextSavers == \E q \in Procs : SaveStep(q)

SpecSavers == InitSavers /\ [][NextSavers]_vars

\* ------------------------------------------------- FileInfo._calculate_md5
\* file_info.py 35-66.  The environment decides what each attempt to read the
\* file meets: it succeeds, raises IOError, or raises another exception.
\* The digest is a number above 0; 0 is the "" the code returns for unknown.
max_retries == 3
Outcomes == {"ok", "IOError", "Exception"}
\* what the n-th attempt would meet, for one attempt more than the limit
OutcomeSeqs == [1..(max_retries + 1) -> Outcomes]
Digests == {1, 2}
NoneValue == 0 - 1
\* line 59: if retries >= max_retries
GivesUp_Late(retries) == retries > max_retries
GivesUp(retries) == retries >= max_retries
\* the loop of lines 38-66 from its test on: retries is the local counter,
\* made the number of attempts made so far
RECURSIVE Md5Loop(_, _, _, _)
Md5Loop(outs, digest, retries, made) ==
    IF ~(retries < max_retries) THEN [value |-> NoneValue, attempts |-> made]
    ELSE IF outs[made + 1] = "ok" THEN [value |-> digest, attempts |-> made + 1]
    ELSE IF outs[made + 1] = "IOError"
    THEN IF GivesUp(retries + 1) THEN [value |-> 0, attempts |-> made + 1]
         ELSE Md5Loop(outs, digest, retries + 1, made + 1)
    ELSE [value |-> 0, attempts |-> made + 1]
_calculate_md5(outs, digest) == Md5Loop(outs, digest, 0, 0)

CalculateMd5(outs, digest) ==
    /\ call' = [f |-> "_calculate_md5", in |-> <<outs, digest>>,
                out |-> _calculate_md5(outs, digest)]
    /\ UNCHANGED <<now, events, rootState, files, dmtime, index, tmp, aside, op, preIndex,
                   saved, index_result, all_files, new_files_count, index_saved,
                   duplicates, total, cbLog, signal, args, saver, hashed,
                   caches, thread, window>>

NextMd5 ==
    call = NoCall /\ \E outs \in OutcomeSeqs, digest \in Digests : CalculateMd5(outs, digest)

SpecMd5 == Init /\ [][NextMd5]_vars

\* ------------------------------------------- deletion through the result tree
\* FileTreeWidget.delete_selected (file_tree.py 102-140) on the listing of
\* the last search, between searches of the same root.
\* the file rows of the tree
ShownFiles == UNION {PathsOf(e.files) : e \in duplicates}
\* lines 126-133: the row is removed, and its group once it has at most one
\* row left
TreeAfterDelete(tree, sel) ==
    LET Kept(fi) == fi.path \notin sel
        Rest(e) == [label |-> e.label, files |-> SelectSeq(e.files, Kept)]
    IN  {Rest(e) : e \in {g \in tree : Len(SelectSeq(g.files, Kept)) > 1
                                        \/ Range(g.files) \cap {fi \in Range(g.files) : ~Kept(fi)} = {}}}
\* line 137: remove_index(os.path.dirname(file_path)) unlinks the index of
\* the file's directory taken as a root: that is the index of the scanned
\* root only for a file that lies in the root itself
IndexAfterDelete(idx, sel) == IF \E p \in sel : DirOf(p) = Root THEN Absent ELSE idx

\* the user selects file rows and confirms; os.remove succeeds for each
DeleteSelected(sel) ==
    /\ signal = "finished"
    /\ sel # {} /\ sel \subseteq ShownFiles
    /\ \A p \in sel : files[p].exists
    /\ files' = [p \in Paths |-> IF p \in sel THEN NoFile ELSE files[p]]
    /\ dmtime' = [d \in Dirs |-> IF \E p \in sel : DirOf(p) = d THEN now ELSE dmtime[d]]
    /\ index' = IndexAfterDelete(index, sel)
    /\ duplicates' = TreeAfterDelete(duplicates, sel)
    /\ op' = "delete"
    /\ UNCHANGED <<now, events, rootState, tmp, aside, preIndex, saved, index_result,
                   all_files, new_files_count, index_saved, total, cbLog, signal, args,
                   saver, hashed, call, caches, thread, window>>

\* the trees searched: audio files of one size
DeleteChoices ==
    {NoFile} \cup [exists : {TRUE}, data : {2}, mtime : {0}, birth : {0},
                    readable : {TRUE}, stat : {TRUE}]
InitDelete ==
    /\ files \in [Paths -> DeleteChoices]
    /\ \A p \in Paths \ (AudioPaths \cap TreePaths) : files[p] = NoFile
    /\ InitProgram

NextDelete ==
    \/ SearchWorkerRun("SIZE")
    \/ \E sel \in SUBSET TreePaths : DeleteSelected(sel)
    \/ Tick
    \/ \E p \in AudioPaths \cap TreePaths : AddFile(p, 2, FALSE)

SpecDelete == InitDelete /\ [][NextDelete]_vars

\* ------------------------------------------------------ the shared caches
\* MusicFinder.get_file_info and clear_cache (music_finder.py 21-38),
\* FileInfo.metadata and calculate_md5 (file_info.py 80-111), called by two
\* threads.  Every access of a dict is a step of its own.
cacheFrame == <<now, events, rootState, files, dmtime, index, tmp, aside, op, preIndex,
                saved, index_result, all_files, new_files_count, index_saved,
                duplicates, total, cbLog, signal, args, saver, hashed, call, window>>

\* the files exist; a1 cannot be read
CachedFile(p) == [exists |-> TRUE, data |-> IF p = "r1" THEN 1 ELSE 2, mtime |-> 0,
                  birth |-> 0, readable |-> p = "r1", stat |-> TRUE]
InitCaches ==
    /\ files = [p \in Paths |-> IF p \in CachePaths THEN CachedFile(p) ELSE NoFile]
    /\ InitProgram

Calling(t, f, p) == [thread EXCEPT ![t] = [NoAccess EXCEPT !.pc = "called", !.f = f, !.path = p]]
Goto(t, pc) == [thread EXCEPT ![t].pc = pc]

\* a thread calls get_file_info(path), clear_cache(), file_info.metadata or
\* file_info.calculate_md5()
CallAccessor(t, f, p) ==
    /\ thread[t].pc = "idle"
    /\ f = "clear_cache" => (p = "none" /\ caches.clears < MaxClears)
    /\ f # "clear_cache" => p \in CachePaths
    /\ thread' = Calling(t, f, p)
    /\ UNCHANGED caches
    /\ UNCHANGED cacheFrame

\* music_finder.py 27 and 37, with cls._cache_lock: waits while another thread
\* holds the lock; metadata and calculate_md5 take no lock
Enter(t) ==
    /\ thread[t].pc = "called"
    /\ IF thread[t].f \in {"get_file_info", "clear_cache"}
       THEN /\ caches.lock = 0
            /\ caches' = [caches EXCEPT !.lock = t]
            /\ thread' = Goto(t, IF thread[t].f = "clear_cache" THEN "clear" ELSE "lookup")
       ELSE /\ UNCHANGED caches
            /\ thread' = Goto(t, "check")
    /\ UNCHANGED cacheFrame

\* music_finder.py 28-29: if path in cls._file_cache: return the entry
Lookup(t) ==
    /\ thread[t].pc = "lookup"
    /\ thread' = IF caches.file[thread[t].path] # 0
                 THEN [thread EXCEPT ![t].pc = "release",
                                     ![t].rec = caches.file[thread[t].path],
                                     ![t].gen = caches.clears]
                 ELSE Goto(t, "create")
    /\ UNCHANGED caches
    /\ UNCHANGED cacheFrame

\* music_finder.py 30-31: a new FileInfo is made and stored
Create(t) ==
    /\ thread[t].pc = "create"
    /\ caches' = [caches EXCEPT !.created = @ + 1, !.file[thread[t].path] = caches.created + 1]
    /\ thread' = [thread EXCEPT ![t].pc = "release", ![t].rec = caches.created + 1,
                                ![t].gen = caches.clears]
    /\ UNCHANGED cacheFrame

\* music_finder.py 38: cls._file_cache.clear()
Clear(t) ==
    /\ thread[t].pc = "clear"
    /\ caches' = [caches EXCEPT !.file = [p \in CachePaths |-> 0], !.clears = @ + 1]
    /\ thread' = Goto(t, "release")
    /\ UNCHANGED cacheFrame

\* the end of the with block
Release(t) ==
    /\ thread[t].pc = "release"
    /\ caches' = [caches EXCEPT !.lock = 0]
    /\ thread' = Goto(t, "idle")
    /\ UNCHANGED cacheFrame

\* file_info.py 83 and 98: if self.path in the cache
Check(t) ==
    /\ thread[t].pc = "check"
    /\ thread' = Goto(t, IF caches[thread[t].f][thread[t].path] # 0 THEN "read" ELSE "compute")
    /\ UNCHANGED caches
    /\ UNCHANGED cacheFrame

\* file_info.py 84 and 99: return the entry
Read(t) ==
    /\ thread[t].pc = "read"
    /\ thread' = [thread EXCEPT ![t].pc = "idle", ![t].val = caches[thread[t].f][thread[t].path]]
    /\ UNCHANGED caches
    /\ UNCHANGED cacheFrame

\* file_info.py 86-89 and 101-105: the file is read; a failure ends the call
\* with nothing stored (lines 91-92, 109-111)
Compute(t) ==
    /\ thread[t].pc = "compute"
    /\ thread' = IF files[thread[t].path].readable
                 THEN [thread EXCEPT ![t].pc = "store", ![t].val = files[thread[t].path].data]
                 ELSE Goto(t, "idle")
    /\ UNCHANGED caches
    /\ UNCHANGED cacheFrame

\* file_info.py 90 and 106: the result is put into the cache
Store(t) ==
    /\ thread[t].pc = "store"
    /\ caches' = [caches EXCEPT ![thread[t].f][thread[t].path] = thread[t].val]
    /\ thread' = Goto(t, "idle")
    /\ UNCHANGED cacheFrame

Accessors == {"get_file_info", "clear_cache", "metadata", "md5"}
NextCaches ==
    \E t \in Procs :
        \/ \E f \in Accessors, p \in CachePaths \cup {"none"} : CallAccessor(t, f, p)
        \/ Enter(t)
        \/ Lookup(t)
        \/ Create(t)
        \/ Clear(t)
        \/ Release(t)
        \/ Check(t)
        \/ Read(t)
        \/ Compute(t)
        \/ Store(t)

SpecCaches == InitCaches /\ [][NextCaches]_vars

\* ------------------------------------------------------------ the window
\* main_window.py: start_search creates a SearchWorker per click and connects
\* its signals to the window; the signals of a worker thread are queued and
\* the window handles them one by one, in the order of their emission.
MaxWorkers == 2
ToolbarMethods == {"FILENAME", "SIZE"}

\* SearchWorker.__init__(directory, method): the worker keeps the directory
\* and the method.  asked, applied and result are history: the toolbar when
\* the search was started, the filters of the call run made, and what the
\* worker emitted.
NewWorker(toolbar) ==
    [method |-> toolbar.method, pc |-> "running", emitted |-> 0,
     asked |-> toolbar, applied |-> [max_depth |-> 0, min_size_mb |-> 0],
     result |-> NoListing]

\* the user changes the toolbar
SetToolbar(method, max_depth, min_size) ==
    /\ window.toolbar # Toolbar(method, max_depth, min_size)
    /\ window' = [window EXCEPT !.toolbar = Toolbar(method, max_depth, min_size)]
    /\ UNCHANGED <<now, events, rootState, files, dmtime, index, tmp, aside, op, preIndex,
                   saved, index_result, all_files, new_files_count, index_saved,
                   duplicates, total, cbLog, signal, args, saver, hashed, call, caches,
                   thread>>

\* MainWindow.start_search, lines 152-170: no test for a worker that still
\* runs; a new worker is created from the directory and the method, connected
\* and started
StartSearch ==
    /\ Len(window.workers) < MaxWorkers
    /\ window' = [window EXCEPT !.workers = Append(@, NewWorker(window.toolbar))]
    /\ UNCHANGED <<now, events, rootState, files, dmtime, index, tmp, aside, op, preIndex,
                   saved, index_result, all_files, new_files_count, index_saved,
                   duplicates, total, cbLog, signal, args, saver, hashed, call, caches,
                   thread>>

\* finished.emit(duplicates, total) of worker w
Finished(w, results, n) == [by |-> w, kind |-> "listing", groups |-> results, total |-> n]

\* SearchWorker.run of worker w, lines 25-36: find_duplicates(directory,
\* method, callback) and one emit of finished with what it returned
WorkerRun(w) ==
    /\ w \in DOMAIN window.workers
    /\ window.workers[w].pc = "running"
    /\ FindDuplicates(window.workers[w].method, 0, 0, "finished")
    /\ window' = [window EXCEPT
          !.workers[w] = [@ EXCEPT !.pc = "ended", !.emitted = @ + 1,
                                   !.applied = [max_depth |-> args'.max_depth,
                                                min_size_mb |-> args'.min_size_mb],
                                   !.result = Finished(w, duplicates', total')],
          !.queue = Append(@, Finished(w, duplicates', total'))]
    /\ UNCHANGED hashed

\* MainWindow.show_results, lines 175-177, run for the oldest queued signal
Deliver ==
    /\ window.queue # <<>>
    /\ window' = [window EXCEPT !.listing = Head(window.queue), !.queue = Tail(@)]
    /\ UNCHANGED <<now, events, rootState, files, dmtime, index, tmp, aside, op, preIndex,
                   saved, index_result, all_files, new_files_count, index_saved,
                   duplicates, total, cbLog, signal, args, saver, hashed, call, caches,
                   thread>>

\* r1 and a1 carry one title, a1 and b1 one size
WindowFile(p) == [exists |-> TRUE, data |-> IF p = "r1" THEN 1 ELSE 2, mtime |-> 0,
                  birth |-> 0, readable |-> TRUE, stat |-> TRUE]
InitWindow ==
    /\ files = [p \in Paths |-> IF p \in AudioPaths \cap TreePaths THEN WindowFile(p)
                                ELSE NoFile]
    /\ InitProgram

NextWindow ==
    \/ \E m \in ToolbarMethods, d \in MaxDepths, s \in MinSizesMb : SetToolbar(m, d, s)
    \/ StartSearch
    \/ \E w \in 1..MaxWorkers : WorkerRun(w)
    \/ Deliver

SpecWindow == InitWindow /\ [][NextWindow]_vars

\* ------------------------------------------------------------------ claims
Scanned == op = "scan"
Loaded == op = "load"

\* C1: every record that load validated is in the result of the scan that
\* started with that cached index.
C1_ValidatedRecordsInResult ==
    (Scanned /\ index_result.hit) =>
        \A rec \in Range(index_result.files) : rec.path \in PathsOf(all_files)

\* C2: with a valid cached index, an audio file created under root after the
\* index timestamp is in the result of the next scan (default filters).
C2_AdditionsCaught ==
    (Scanned /\ index_result.hit) =>
        \A p \in Paths :
            (Exists(p) /\ Ext(p) \in MUSIC_EXTENSIONS
                /\ files[p].birth > index_result.timestamp)
            => p \in PathsOf(all_files)

\* C3: a stored record that load finds stale (file missing, size or mtime
\* disagreeing) is not returned and is no longer in the persisted index
\* once load has returned.
C3_StaleRecordsCompacted ==
    (Loaded /\ preIndex.kind = "doc" /\ ~IsExpired(preIndex)) =>
        \A rec \in Range(preIndex.files) :
            ~IsValidRec(rec) =>
                /\ rec \notin Range(index_result.files)
                /\ rec \notin Range(index.files)

\* C4 as stated: for every list of records, save then load returns records
\* with the paths, sizes and mtimes that were saved.
C4_RoundTripAnyRecords ==
    (Loaded /\ saved.given) => Range(index_result.files) = Range(saved.recs)

\* C4 as amended: for every non-empty list of records that agree with the
\* files on disk (path exists, size and mtime as on disk), save then load
\* returns exactly the records that were saved.
AgreesWithDisk(rec) ==
    Exists(rec.path) /\ rec.size = StatSize(rec.path) /\ rec.mtime = StatMtime(rec.path)
C4_RoundTripLiveRecords ==
    (Loaded /\ saved.given /\ saved.recs # <<>>
        /\ \A rec \in Range(saved.recs) : AgreesWithDisk(rec))
    => (index_result.hit /\ index_result.files = saved.recs)
C4_Witness ==
    /\ Loaded /\ saved.given /\ Len(saved.recs) = 2
    /\ saved.recs[1].path # saved.recs[2].path
    /\ \A rec \in Range(saved.recs) : AgreesWithDisk(rec)
    /\ index_result.files = saved.recs

\* C5: after a scan that found a new file or whose merged count differs from
\* the cached count, the index has been rewritten and holds exactly the
\* paths of the result.
C5_DriftRewritesIndex ==
    (Scanned /\ (new_files_count > 0
                 \/ (index_result.hit /\ Len(all_files) # Len(index_result.files))))
    => (index_saved /\ index.kind = "doc" /\ PathsOf(index.files) = PathsOf(all_files))

\* C7: a persisted index whose timestamp is more than 24 hours before the
\* call is a cache miss, and the scan uses no record of it: its result is
\* that of a scan without an index.
C7_ExpiredIndexIsMiss ==
    (Scanned /\ preIndex.kind = "doc" /\ now - preIndex.timestamp > MaxAgeHours * 3600)
    => (~index_result.hit
        /\ new_files_count = Len(all_files)
        /\ all_files = AllFiles(Miss, args.max_depth, args.min_size_mb))
C7_Witness ==
    /\ Scanned /\ preIndex.kind = "doc"
    /\ now - preIndex.timestamp > MaxAgeHours * 3600
    /\ \E rec \in Range(preIndex.files) : IsValidRec(rec) /\ rec.path \in PathsOf(all_files)

\* C8: on a malformed index load is a miss and the corrupt file is renamed
\* aside: it is no longer at the index path and its content is kept under
\* another name.
C8_CorruptRenamedAside ==
    (Loaded /\ preIndex.kind = "corrupt") =>
        (~index_result.hit /\ index.kind # "corrupt" /\ aside = preIndex)

\* C9: a scan of a root that does not exist or cannot be read ends with the
\* error signal, never as a finished search.
C9_UnreadableRootIsError ==
    (Scanned /\ rootState # "ok") => signal = "error"

\* C10: when the classification raises, find_duplicates returns an empty
\* group map and the number of files scanned, and reports the error through
\* the callback.
C10_ErrorReturnsEmptyGroups ==
    (Scanned /\ args.err > 0) =>
        /\ duplicates = {}
        /\ total = Len(all_files)
        /\ Cb("error", 0) \in cbLog
C10_Witness ==
    /\ Scanned /\ args.err > 0
    /\ DuplicatesAfter(all_files, args.method, args.err - 1) # {}
    /\ duplicates = {}
    /\ total >= 2

\* C6: at every point of save_index, a crash or a failed step included, the
\* file at the index path is absent, the complete snapshot that was there
\* when the save began, or the complete new snapshot.
C6_IndexNeverPartial ==
    /\ index.kind \in {"absent", "doc"}
    /\ \A q \in Procs :
          saver[q].pc \notin {"idle"} =>
              (index = saver[q].old \/ index = saver[q].doc)
C6_Witness ==
    /\ saver[1].pc = "crashed"
    /\ tmp.kind = "partial"
    /\ index.kind = "doc"
    /\ index = saver[1].old
    /\ index # saver[1].doc

\* C11: a search that failed (its classification raised) ends with the error
\* message shown, never with a result listing in its place.
C11_FailedSearchShowsError ==
    (Scanned /\ signal # "none" /\ args.err > 0) => Shown.kind = "error"

\* C12: no group of the SIZE method holds two files of different byte size,
\* and no group of the MD5 method holds two files whose contents differ.
SameSize(f, g) == StatSize(f.path) = StatSize(g.path)
SameContent(f, g) == files[f.path].data = files[g.path].data
C12_GroupsAreHomogeneous ==
    Scanned =>
        \A grp \in duplicates : \A f \in Range(grp.files), g \in Range(grp.files) :
            /\ args.method = "SIZE" => SameSize(f, g)
            /\ args.method = "MD5" => SameContent(f, g)
C12_Witness ==
    /\ Scanned /\ args.method = "MD5"
    /\ \E grp \in duplicates : \E f \in Range(grp.files), g \in Range(all_files) :
          /\ Len(grp.files) = 2
          /\ g \notin Range(grp.files)
          /\ SameSize(f, g) /\ ~SameContent(f, g) /\ files[g.path].readable

\* C13: under every method every returned group holds at least two records,
\* and the records of a group have pairwise distinct paths.
C13_GroupsOfTwoDistinct ==
    Scanned =>
        \A grp \in duplicates :
            /\ Len(grp.files) >= 2
            /\ \A i \in DOMAIN grp.files, j \in DOMAIN grp.files :
                  i # j => grp.files[i].path # grp.files[j].path
C13_Witness ==
    /\ Scanned /\ args.method = "FILENAME" /\ index_result.hit
    /\ Len(all_files) = 3
    /\ \E grp \in duplicates : Len(grp.files) = 2

\* C14: a record whose hash could not be computed (the file cannot be read)
\* is in no group of an MD5 or MIXED search; two files of unknown hash are
\* never grouped as equal.
InSomeGroup(p) ==
    \E grp \in duplicates : \E i \in DOMAIN grp.files : grp.files[i].path = p
HashSearched == Scanned /\ signal = "finished" /\ args.method \in {"MD5", "MIXED"}
C14_UnknownHashNotGrouped ==
    HashSearched =>
        \A p \in Paths : (files[p].exists /\ ~files[p].readable) => ~InSomeGroup(p)
C14_Witness ==
    /\ HashSearched /\ args.err = 0
    /\ \E p \in Paths, q \in Paths :
          /\ p # q
          /\ files[p].exists /\ files[q].exists
          /\ ~files[p].readable /\ ~files[q].readable
          /\ files[p].data = files[q].data
          /\ \E i \in DOMAIN all_files : all_files[i].path = p
          /\ \E i \in DOMAIN all_files : all_files[i].path = q
          /\ ~InSomeGroup(p) /\ ~InSomeGroup(q)

\* C15: for the same scanned files, every MIXED group is within one group of
\* the SIZE result: two files sharing a MIXED group share a SIZE group.
SizeResult(all) == DuplicatesAfter(all, "SIZE", Len(ClassKeys(all, "SIZE")))
C15_MixedWithinSize ==
    (Scanned /\ signal = "finished" /\ args.method = "MIXED") =>
        \A grp \in duplicates :
            \E sg \in SizeResult(all_files) : Range(grp.files) \subseteq Range(sg.files)

\* C16: within one process the content of a path is hashed at most once; a
\* later search gets the memoized digest without reading the file again.
C16_HashedAtMostOnce == \A p \in Paths : hashed[p] # "again"

\* C17: "Song - Artist.mp3" and "Song - Artist (Live).mp3" are both parsed to
\* title "song" and artist "artist"; two basenames that differ only by a known
\* marker, after the title or at the end of the name, get the same
\* (title, artist) pair.
Parsing == call.f = "parse_music_filename"
DiffersByMarker(n1, n2) ==
    \E t \in NameTitles, a \in NameArtists :
        /\ n1 = MakeName(t, <<>>, a, <<>>)
        /\ n2 \in {MakeName(t, LiveMarker, a, <<>>), MakeName(t, <<>>, a, LiveMarker)}
C17_MarkerVariantsSamePair ==
    Parsing =>
        /\ DiffersByMarker(call.in[1], call.in[2]) => call.out[1] = call.out[2]
        /\ (/\ call.in[1] = MakeName(SongTitle, <<>>, ArtistPart, <<>>)
            /\ call.in[2] = MakeName(SongTitle, <<>>, ArtistPart, LiveMarker))
           => /\ call.out[1] = [title |-> SongTitleLower, artist |-> Lower(SubSeq(ArtistPart, 4, 9))]
              /\ call.out[2] = call.out[1]

\* C18: the artist's trailing "feat. <name>" is stripped: "Song - Artist.mp3"
\* and "Song - Artist feat. Other.mp3" get the same group key and are in one
\* group of a FILENAME search.
C18_FeatSuffixSameGroup ==
    (/\ Scanned /\ signal = "finished" /\ args.method = "FILENAME"
     /\ {"r1", "b1"} \subseteq PathsOf(all_files))
    => /\ NameKeys["r1"] = NameKeys["b1"]
       /\ \E grp \in duplicates : {"r1", "b1"} \subseteq PathsOf(grp.files)

\* C19: with skip_different_names off and no row under an excluded directory,
\* the resolution of a group of n rows selects exactly n - 1 of them, and the
\* row left unselected is one that sorts first under the sort key.
Selecting == call.f = "auto_select_duplicates" /\ call.in.accepted
RowKey(row, settings) ==
    SortKey([file |-> row.file, size |-> row.size, mtime |-> row.mtime,
             priority |-> PriorityOf(row.file.ext, settings)], settings)
SelectedRows(gi) == {j \in DOMAIN call.in.tree[gi] : <<gi, j>> \in call.out}
KeptRows(gi) == DOMAIN call.in.tree[gi] \ SelectedRows(gi)
NoneExcluded ==
    \A gi \in DOMAIN call.in.tree : \A j \in DOMAIN call.in.tree[gi] :
        ~IsExcluded(call.in.tree[gi][j].file, call.in.settings)
C20_KeeperSizePreference ==
    Selecting =>
        \A gi \in DOMAIN call.in.tree :
            LET g == call.in.tree[gi]
                st == call.in.settings
            IN  Cardinality(KeptRows(gi)) = 1 =>
                    \A k \in KeptRows(gi) : \A j \in DOMAIN g :
                        (/\ ~IsExcluded(g[j].file, st)
                         /\ RowKey(g[j], st)[1] = RowKey(g[k], st)[1]
                         /\ RowKey(g[j], st)[2] = RowKey(g[k], st)[2])
                        => IF st.prefer_larger THEN g[j].size <= g[k].size
                           ELSE g[j].size >= g[k].size

\* C21: with keep_oldest the row kept is the oldest among the rows that tie
\* with it on in_delete_dir, priority and size; without it, the newest.
C21_KeeperTimePreference ==
    Selecting =>
        \A gi \in DOMAIN call.in.tree :
            LET g == call.in.tree[gi]
                st == call.in.settings
            IN  Cardinality(KeptRows(gi)) = 1 =>
                    \A k \in KeptRows(gi) : \A j \in DOMAIN g :
                        (/\ ~IsExcluded(g[j].file, st)
                         /\ \A c \in 1..3 : RowKey(g[j], st)[c] = RowKey(g[k], st)[c])
                        => IF st.keep_oldest THEN g[k].mtime <= g[j].mtime
                           ELSE g[k].mtime >= g[j].mtime

\* C22: the ranking puts in_delete_dir first and the format priority second.
\* A row under a delete directory is not kept when its group has a row outside
\* every delete directory; among rows of the same side, a row whose extension
\* has no priority is not kept over one whose extension has, whatever the
\* sizes and times.
UnderDeleteDir(file, settings) ==
    \E d \in settings.delete_dirs : LowerWord(d) \in {LowerWord(w) : w \in file.dirs}
HasPriority(file, settings) == file.ext \in DOMAIN settings.format_priority
C22_DeleteDirThenPriority ==
    (Selecting /\ ~call.in.settings.skip_different_names) =>
        \A gi \in DOMAIN call.in.tree :
            LET g == call.in.tree[gi]
                st == call.in.settings
            IN  \A k \in KeptRows(gi) : \A j \in DOMAIN g :
                    (~IsExcluded(g[k].file, st) /\ ~IsExcluded(g[j].file, st)) =>
                        /\ UnderDeleteDir(g[k].file, st) => UnderDeleteDir(g[j].file, st)
                        /\ (/\ UnderDeleteDir(g[k].file, st) = UnderDeleteDir(g[j].file, st)
                            /\ ~HasPriority(g[k].file, st))
                           => ~HasPriority(g[j].file, st)

\* C23: no row under a directory of exclude_dirs is selected, and a group
\* whose rows all lie under exclude_dirs has no row selected.
UnderExcludeDir(file, settings) == \E d \in settings.exclude_dirs : d \in file.dirs
C23_ExcludedNeverSelected ==
    Selecting =>
        \A gi \in DOMAIN call.in.tree : \A j \in DOMAIN call.in.tree[gi] :
            UnderExcludeDir(call.in.tree[gi][j].file, call.in.settings) => <<gi, j>> \notin call.out
C23_Witness ==
    /\ Selecting /\ ~call.in.settings.skip_different_names
    /\ Len(call.in.tree) = 2
    /\ \A j \in DOMAIN call.in.tree[1] :
          UnderExcludeDir(call.in.tree[1][j].file, call.in.settings)
    /\ <<1, 1>> \in call.in.selected
    /\ SelectedRows(1) = {}
    /\ SelectedRows(2) # {}

\* C24: with skip_different_names the rows of a group that are not excluded
\* are subdivided by file name without extension; a row alone in its subgroup
\* is not selected, and a subgroup of k >= 2 rows has k - 1 rows selected and
\* one kept.
SameNameRows(gi, j) ==
    {i \in DOMAIN call.in.tree[gi] :
        /\ ~IsExcluded(call.in.tree[gi][i].file, call.in.settings)
        /\ call.in.tree[gi][i].file.stem = call.in.tree[gi][j].file.stem}
C24_SubgroupsByName ==
    (Selecting /\ call.in.settings.skip_different_names) =>
        \A gi \in DOMAIN call.in.tree : \A j \in DOMAIN call.in.tree[gi] :
            ~IsExcluded(call.in.tree[gi][j].file, call.in.settings) =>
                Cardinality(SameNameRows(gi, j) \cap SelectedRows(gi))
                    = Cardinality(SameNameRows(gi, j)) - 1
C24_Witness ==
    /\ Selecting /\ call.in.settings.skip_different_names
    /\ Len(call.in.tree[1]) = 3
    /\ \E j \in DOMAIN call.in.tree[1] :
          /\ Cardinality(SameNameRows(1, j)) = 1
          /\ j \notin SelectedRows(1)
    /\ \E j \in SelectedRows(1) : Cardinality(SameNameRows(1, j)) = 2

\* C25: path normalization is idempotent: normalizing the result of a
\* normalization that returned gives the same path again.
C25_NormalizeIdempotent ==
    (call.f = "normalize_path" /\ call.out[1].ok) => call.out[2] = call.out[1]

\* C26: a duplicate search leaves every file and directory under the scanned
\* root as it was: a step of find_duplicates changes no file of the tree
\* (existence, content, mtime), no directory mtime and not the root itself;
\* on the filesystem it changes only the index file and its temporary file,
\* and no other file of the index directory.
C26_SearchLeavesTreeUnchanged ==
    [][op' = "scan" =>
          /\ files' = files
          /\ dmtime' = dmtime
          /\ rootState' = rootState
          /\ aside' = aside]_vars

\* a search over a tree that holds audio and non-audio files has written its index
C26_Witness ==
    /\ op = "scan"
    /\ index_saved
    /\ index # preIndex
    /\ files["x1"].exists
    /\ \E p \in AudioPaths : files[p].exists

\* C27: a failure on a single file never aborts the scan.  In every search,
\* started with files that cannot be stat'ed or overtaken by such a failure
\* after load_index returned: no failing file is in all_files; every file
\* the same search returns without the failure is still in all_files; a
\* search without a usable index returns every listed audio file that can be
\* stat'ed and passes the size and depth filters; and the search returns
\* normally, with the count of these files.
StatFailing(fs) == {p \in Paths : fs[p].exists /\ ~fs[p].stat}
PassesFilters(p, fs, a) ==
    /\ fs[p].exists /\ fs[p].stat
    /\ Ext(p) \in MUSIC_EXTENSIONS
    /\ SizeOfData(fs[p].data) >= a.min_size_mb * MB
    /\ ~TooDeep(DirOf(p), a.max_depth)
C27_FileFailureNeverAborts ==
    [][op' = "scan" =>
          /\ PathsOf(all_files') \cap StatFailing(files') = {}
          /\ PathsOf(AllFiles(LoadResult(index), args'.max_depth, args'.min_size_mb))
                 \ StatFailing(files') \subseteq PathsOf(all_files')
          /\ ~index_result'.hit =>
                 \A p \in Paths : PassesFilters(p, files', args') => p \in PathsOf(all_files')
          /\ total' = Len(all_files')]_vars

\* a search took its records from the index while stat began to fail for
\* the first of them, which is also listed first in the walk; it returned
\* the two other files
C27_Witness ==
    /\ op = "scan"
    /\ index_result.hit
    /\ index_result.files # <<>> /\ index_result.files[1].path = "r1"
    /\ files["r1"].exists /\ ~files["r1"].stat
    /\ PathsOf(all_files) = {"a1", "b1"}
    /\ total = 2

\* C28: when two searches of one root save the index at the same time, the
\* index path holds at every moment a complete snapshot written by one of
\* the savers (or nothing, before the first save): never a partially
\* written or a mixed document.
C28_IndexAlwaysSnapshot ==
    index = Absent \/ (index.kind = "doc" /\ index.files # <<>>)

\* C29: every read and write of the shared caches is made while holding the
\* mutex: a thread that is about to read or write a cache holds the lock, no
\* two threads are at an access of the same entry of the same cache at the
\* same time, and the requests for one path between two clears of the cache
\* all get the one record made for it.
Accessing(t) == thread[t].pc \in {"lookup", "create", "clear", "check", "read", "store"}
CacheOf(t) == IF thread[t].f \in {"get_file_info", "clear_cache"} THEN "file" ELSE thread[t].f
SameEntry(t, u) ==
    /\ CacheOf(t) = CacheOf(u)
    /\ thread[t].path = thread[u].path \/ "none" \in {thread[t].path, thread[u].path}
C29_CacheAccessUnderMutex ==
    /\ \A t \in Procs : Accessing(t) => caches.lock = t
    /\ \A t, u \in Procs : (t # u /\ Accessing(t) /\ Accessing(u)) => ~SameEntry(t, u)
    /\ \A t, u \in Procs :
          (/\ thread[t].rec # 0 /\ thread[u].rec # 0
           /\ thread[t].path = thread[u].path /\ thread[t].gen = thread[u].gen)
          => thread[t].rec = thread[u].rec

\* C30: the hash computation ends after at most 3 attempts to read the file.
\* It returns the digest of the first attempt that succeeds; after the third
\* failed attempt it returns the unknown value and makes no fourth attempt;
\* an attempt that fails with something other than an I/O error ends it at
\* once with the unknown value.
Md5Called == call.f = "_calculate_md5"
\* the first attempt that does not end in an IOError, or one past the limit
FirstSettled(outs) ==
    Least({n \in 1..max_retries : outs[n] # "IOError"} \cup {max_retries + 1})
C30_Md5BoundedRetry ==
    Md5Called =>
        LET outs == call.in[1]
            k == FirstSettled(outs)
        IN  /\ call.out.attempts <= 3
            /\ (k <= 3 /\ outs[k] = "ok") =>
                   (call.out.value = call.in[2] /\ call.out.attempts = k)
            /\ (k <= 3 /\ outs[k] = "Exception") =>
                   (call.out.value = 0 /\ call.out.attempts = k)
            /\ k > 3 => (call.out.value = 0 /\ call.out.attempts = 3)

\* two attempts fail with an IOError and the third succeeds: its digest is returned
C30_Witness ==
    /\ Md5Called
    /\ call.in[1][1] = "IOError" /\ call.in[1][2] = "IOError" /\ call.in[1][3] = "ok"
    /\ call.out.value = call.in[2]
    /\ call.out.attempts = 3

\* C31: under MIXED the content of a file is read for a digest only if
\* another scanned file has the same byte size: a file whose size is unique
\* among the scanned files is not hashed by that search.
SizeShared(p, all) ==
    \E f, g \in Range(all) : f.path = p /\ g.path # p /\ g.size_bytes = f.size_bytes
C31_UniqueSizeNeverHashed ==
    (op = "scan" /\ args.method = "MIXED") =>
        \A p \in Md5Requested(all_files, args.method, args.err) : SizeShared(p, all_files)

\* the first search, under MIXED, read two files of one size and left a third
\* scanned file of another size unread
C31_Witness ==
    /\ op = "scan" /\ args.method = "MIXED"
    /\ \E p, q \in PathsOf(all_files) :
          /\ p # q /\ hashed[p] = "once" /\ hashed[q] = "once"
    /\ \E p \in PathsOf(all_files) : hashed[p] = "no" /\ ~SizeShared(p, all_files)

\* C32: with max_depth = d > 0 the walk adds no file from a directory more
\* than d path segments below the root and goes into no directory below that
\* depth; with max_depth = 0 no directory is left out because of its depth: a
\* search without a usable index returns the files of every directory.
AddedByWalk == SubSeq(all_files, Len(all_files) - new_files_count + 1, Len(all_files))
ClassOf(method, fi) ==
    IF method = "SIZE" THEN <<fi.size_bytes>>
    ELSE IF method = "MD5" THEN <<Md5(fi)>>
    ELSE IF method = "MIXED" THEN <<fi.size_bytes, Md5(fi)>>
    ELSE <<NameKey(fi)>>
Classified(method, fi) == method \in {"MD5", "MIXED"} => Md5(fi) # 0
Classmates(method, fi) ==
    {g.path : g \in {h \in Range(all_files) :
                        Classified(method, h) /\ ClassOf(method, h) = ClassOf(method, fi)}}
C33_EveryClassItsOwnGroup ==
    (op = "scan" /\ args.err = 0) =>
        \A fi \in Range(all_files) :
            (Classified(args.method, fi) /\ Cardinality(Classmates(args.method, fi)) >= 2)
            => \E e \in duplicates : PathsOf(e.files) = Classmates(args.method, fi)

\* C34: every record of a group that find_duplicates(root, ..., min_size_mb = m)
\* returns has at least m megabytes, also a record taken from an index that
\* an earlier search of the root wrote with a smaller minimum size.
C34_ResultHonoursMinSize ==
    op = "scan" =>
        \A e \in duplicates : \A fi \in Range(e.files) :
            fi.size_bytes >= args.min_size_mb * MB

\* C35: a file that was deleted through the result tree and not created
\* again is in no listing and no group of a later search, and is not in the
\* persisted index when that search has ended.
Gone(p) == ~files[p].exists
C35_DeletedFileForgotten ==
    op = "scan" =>
        \A p \in Paths :
            Gone(p) => /\ p \notin PathsOf(all_files)
                       /\ p \notin ShownFiles
                       /\ index.kind = "doc" => p \notin PathsOf(index.files)

\* C36: when a search is started while an earlier one still runs, the listing
\* shown once both have ended and their signals are handled is that of the
\* search started last.
AllEnded ==
    /\ window.queue = <<>>
    /\ \A w \in DOMAIN window.workers : window.workers[w].pc = "ended"
C36_LastSearchShown ==
    (Len(window.workers) >= 2 /\ AllEnded) =>
        /\ window.listing.groups = window.workers[Len(window.workers)].result.groups
        /\ window.listing.total = window.workers[Len(window.workers)].result.total

\* C38: the minimum size and the maximum depth of the toolbar at the start of
\* a search are the filters its call of find_duplicates applies.
C38_ToolbarFiltersApplied ==
    \A w \in DOMAIN window.workers :
        window.workers[w].pc = "ended" =>
            /\ window.workers[w].applied.max_depth = window.workers[w].asked.max_depth
            /\ window.workers[w].applied.min_size_mb = window.workers[w].asked.min_size

\* C37: the resolution selects the same files whatever the order in which the
\* rows of a group are listed, also when rows tie on the whole sort key.
Reversed(g) == [i \in DOMAIN g |-> g[Len(g) + 1 - i]]
FilesSelected(tree, settings) ==
    {tree[it[1]][it[2]].file : it \in auto_select_duplicates(tree, settings, TRUE, {})}
C37_SelectionIgnoresOrder ==
    (call.f = "auto_select_duplicates" /\ call.in.accepted) =>
        FilesSelected([call.in.tree EXCEPT ![1] = Reversed(@)], call.in.settings)
            = {call.in.tree[it[1]][it[2]].file : it \in call.out}

====
